---- MODULE Spec2Model ----
(***************************************************************************)
(* Retrieval orchestration core of rag-lab: rank fusion (fusion.py),       *)
(* deduplication and top-k selection (subquery.py), entity-graph expansion *)
(* (graph_rag.py), two-stage reranking (reranking_rag.py) and the adaptive *)
(* router (adaptive/orchestrator.py).  Each component has its own          *)
(* specification over the shared variables; the variables of the other     *)
(* components stay at their initial values.                                *)
(***************************************************************************)
EXTENDS Integers, Sequences, FiniteSets, TLC

VARIABLES
    \* fusion.py: fusion_rag / _reciprocal_rank_fusion
    f_pc, all_results, rrf_k, final_top_k, fused_docs,
    \* subquery.py: subquery_rag / _deduplicate_docs
    d_pc, all_docs, sq_top_k, unique_docs, unique_docs_sorted,
    \* graph_rag.py: graph_rag / _build_entity_graph / _expand_entities
    g_pc, query_entities, entity_graph, g_sampled, expansion_hops, expanded_entities,
    \* reranking_rag.py: reranking_rag
    rr_pc, cohere_api_key, rr_top_k, initial_docs, documents_to_rerank, rerank_response,
    reranked_sources, stage1_calls, stage2_calls,
    \* adaptive/orchestrator.py: run_adaptive_rag and the AdaptiveState fields
    r_pc, COHERE_API_KEY, classify_outcome, classifier_response, execute_outcome,
    query_type, technique, confidence, answer, sources, metrics, execution_details,
    r_result,
    \* query expansion and the per-variant search loop of fusion_rag, subquery_rag
    \* and hyde_rag
    e_pc, e_technique, num_variations, e_outcome, e_response, query_variations,
    search_calls,
    \* api/routes.py: query_rag and the technique it dispatches to
    q_pc, request_technique, request_top_k, indexed, technique_params, q_selected,
    q_sources,
    \* graph_rag.py: _filter_docs_by_entities
    fl_pc, fl_docs, fl_entities, fl_top_k, relevant_docs,
    \* core/api_keys.py: the global APIKeyRotator and the clock time.time()
    _keys, _current_index, now,
    \* a sequence of calls of the rotator's methods, and what the last
    \* get_next_key did
    rot_pc, rot_ops, rot_last, gnk_result, gnk_examined, gnk_run,
    \* core/llm.py: one call of invoke_with_rotation / ainvoke_with_rotation
    iv_pc, iv_max_retries, iv_cooldown, iv_attempt, iv_log, iv_error,
    \* two callers of get_next_key and mark_current_exhausted
    c_pc, c_key, c_marked,
    \* queries routed at the same time by run_adaptive_rag
    limited, rq_pc, rq_category, rq_confidence, rq_technique, rq_result

fusionVars == <<f_pc, all_results, rrf_k, final_top_k, fused_docs>>

dedupVars == <<d_pc, all_docs, sq_top_k, unique_docs, unique_docs_sorted>>

graphVars ==
    <<g_pc, query_entities, entity_graph, g_sampled, expansion_hops, expanded_entities>>

rerankVars ==
    <<rr_pc, cohere_api_key, rr_top_k, initial_docs, documents_to_rerank, rerank_response,
      reranked_sources, stage1_calls, stage2_calls>>

routerVars ==
    <<r_pc, COHERE_API_KEY, classify_outcome, classifier_response, execute_outcome,
      query_type, technique, confidence, answer, sources, metrics, execution_details,
      r_result>>

expansionVars ==
    <<e_pc, e_technique, num_variations, e_outcome, e_response, query_variations,
      search_calls>>

queryVars ==
    <<q_pc, request_technique, request_top_k, indexed, technique_params, q_selected,
      q_sources>>

filterVars == <<fl_pc, fl_docs, fl_entities, fl_top_k, relevant_docs>>

rotVars == <<_keys, _current_index, now>>

apiVars == <<rot_pc, rot_ops, rot_last, gnk_result, gnk_examined, gnk_run>>

invokeVars == <<iv_pc, iv_max_retries, iv_cooldown, iv_attempt, iv_log, iv_error>>

callerVars == <<c_pc, c_key, c_marked>>

routedVars == <<limited, rq_pc, rq_category, rq_confidence, rq_technique, rq_result>>

rotatorVars == <<rotVars, apiVars, invokeVars, callerVars, routedVars>>

vars ==
    <<fusionVars, dedupVars, graphVars, rerankVars, routerVars, expansionVars, queryVars,
      filterVars, rotatorVars>>

\* what a step of one component leaves alone
notFusion ==
    <<dedupVars, graphVars, rerankVars, routerVars, expansionVars, queryVars, filterVars,
      rotatorVars>>
notDedup ==
    <<fusionVars, graphVars, rerankVars, routerVars, expansionVars, queryVars, filterVars,
      rotatorVars>>
notGraph ==
    <<fusionVars, dedupVars, rerankVars, routerVars, expansionVars, queryVars, filterVars,
      rotatorVars>>
notRerank ==
    <<fusionVars, dedupVars, graphVars, routerVars, expansionVars, queryVars, filterVars,
      rotatorVars>>
notRouter ==
    <<fusionVars, dedupVars, graphVars, rerankVars, expansionVars, queryVars, filterVars,
      rotatorVars>>
notExpansion ==
    <<fusionVars, dedupVars, graphVars, rerankVars, routerVars, queryVars, filterVars,
      rotatorVars>>
notQuery ==
    <<fusionVars, dedupVars, graphVars, rerankVars, routerVars, expansionVars, filterVars,
      rotatorVars>>
notFilter ==
    <<fusionVars, dedupVars, graphVars, rerankVars, routerVars, expansionVars, queryVars,
      rotatorVars>>
\* what execute_rag_node leaves alone when it runs reranking_rag
notRouterNorRerank ==
    <<fusionVars, dedupVars, graphVars, expansionVars, queryVars, filterVars,
      rotatorVars>>

notRotator ==
    <<fusionVars, dedupVars, graphVars, rerankVars, routerVars, expansionVars, queryVars,
      filterVars>>

(***************************************************************************)
(* Bounds of the model.                                                    *)
(***************************************************************************)
\* longest ranked list one retrieval call returns
MaxLen == 2
\* most ranked lists (query variants) fused in one invocation
MaxLists == 2
\* largest requested result count
MaxTopK == 3
\* most candidates the sub-query searches return together
MaxFlat == 3
\* most entities one extraction call returns
MaxEnts == 2
\* most documents the initial retrieval of graph_rag returns
MaxGraphDocs == 2
\* largest expansion_hops
MaxHops == 2
\* most passages the store holds for the stage-1 retrieval of reranking_rag
MaxStore == 2
\* largest number of variants asked of the expansion
MaxN == 6
\* lines of a generation response
MaxLines == 5
\* documents indexed in the namespace
MaxIndexed == 6
\* largest top_k of a request (the API accepts 1..20)
MaxRequested == 6
\* documents handed to the entity re-ranking
MaxFilterDocs == 3
\* most API keys configured
MaxKeys == 2
\* latest reading of the clock
MaxClock == 2
\* longest sequence of calls of the rotator's methods
MaxOps == 6
\* largest max_retries
MaxRetries == 3

(***************************************************************************)
(* Python built-ins used by the code.                                      *)
(***************************************************************************)
Min(a, b) == IF a <= b THEN a ELSE b
Max(a, b) == IF a >= b THEN a ELSE b

Range(s) == {s[i] : i \in 1..Len(s)}

\* seq[:n] (Python slice: a negative n counts from the end)
SliceTo(seq, n) ==
    IF n >= 0 THEN SubSeq(seq, 1, Min(n, Len(seq)))
    ELSE SubSeq(seq, 1, Max(Len(seq) + n, 0))

\* sorted(seq, key=..., reverse=True), key[i] being the key of seq[i]:
\* descending by key; Python's sort is stable and reverse=True keeps the input
\* order of elements with equal keys.
SortedReverse(seq, key) ==
    LET n == Len(seq)
        Pos(i) == Cardinality({j \in 1..n :
                      \/ key[j] > key[i]
                      \/ (key[j] = key[i] /\ j < i)}) + 1
    IN  [p \in 1..n |-> seq[CHOOSE i \in 1..n : Pos(i) = p]]

RECURSIVE SeqsUpTo(_, _)
\* all sequences over S of length at most n
SeqsUpTo(S, n) ==
    IF n = 0 THEN {<<>>}
    ELSE LET shorter == SeqsUpTo(S, n - 1)
         IN  shorter \cup {Append(s, x) : s \in {t \in shorter : Len(t) = n - 1}, x \in S}

(***************************************************************************)
(* Python str methods.  A str is a sequence of one-character strings.      *)
(***************************************************************************)
UpperCase == <<"A", "B", "C", "D", "E", "F", "G", "H", "I", "J", "K", "L", "M",
               "N", "O", "P", "Q", "R", "S", "T", "U", "V", "W", "X", "Y", "Z">>

LowerCase == <<"a", "b", "c", "d", "e", "f", "g", "h", "i", "j", "k", "l", "m",
               "n", "o", "p", "q", "r", "s", "t", "u", "v", "w", "x", "y", "z">>

\* c.isalpha()
IsAlpha(c) == c \in Range(UpperCase) \/ c \in Range(LowerCase)

\* the characters str.strip() and str.split() treat as whitespace
IsSpace(c) == c \in {" ", "\n", "\t"}

CharLower(c) ==
    IF c \in Range(UpperCase)
    THEN LowerCase[CHOOSE i \in 1..Len(UpperCase) : UpperCase[i] = c]
    ELSE c

\* s.lower()
StrLower(s) == [i \in 1..Len(s) |-> CharLower(s[i])]

\* s.strip()
StrStrip(s) ==
    LET inked == {i \in 1..Len(s) : ~IsSpace(s[i])}
    IN  IF inked = {} THEN <<>>
        ELSE SubSeq(s, CHOOSE i \in inked : \A j \in inked : i <= j,
                       CHOOSE i \in inked : \A j \in inked : i >= j)

\* s.split()[0], for a stripped non-empty s
FirstWord(s) ==
    LET spaces == {i \in 1..Len(s) : IsSpace(s[i])}
    IN  IF spaces = {} THEN s
        ELSE SubSeq(s, 1, (CHOOSE i \in spaces : \A j \in spaces : i <= j) - 1)

\* ''.join(c for c in s if c.isalpha())
KeepAlpha(s) == SelectSeq(s, IsAlpha)

\* sub in s
StrContains(sub, s) ==
    \E i \in 0..(Len(s) - Len(sub)) : SubSeq(s, i + 1, i + Len(sub)) = sub

(***************************************************************************)
(* A component that is not running: its parameters at their defaults.      *)
(***************************************************************************)
FusionIdle ==
    /\ f_pc = "idle"
    /\ all_results = <<>>
    /\ rrf_k = 60
    /\ final_top_k = 5
    /\ fused_docs = <<>>

DedupIdle ==
    /\ d_pc = "idle"
    /\ all_docs = <<>>
    /\ sq_top_k = 5
    /\ unique_docs = <<>>
    /\ unique_docs_sorted = <<>>

GraphIdle ==
    /\ g_pc = "idle"
    /\ query_entities = <<>>
    /\ entity_graph = [nodes |-> {}, edges |-> <<>>]
    /\ g_sampled = 0
    /\ expansion_hops = 1
    /\ expanded_entities = {}

RerankIdle ==
    /\ rr_pc = "idle"
    /\ cohere_api_key = "<None>"
    /\ rr_top_k = 5
    /\ initial_docs = <<>>
    /\ documents_to_rerank = <<>>
    /\ rerank_response = <<>>
    /\ reranked_sources = <<>>
    /\ stage1_calls = 0
    /\ stage2_calls = 0

RouterIdle ==
    /\ r_pc = "idle"
    /\ COHERE_API_KEY = ""
    /\ classify_outcome = "<none>"
    /\ classifier_response = <<>>
    /\ execute_outcome = "<none>"
    /\ query_type = <<>>
    /\ technique = ""
    /\ confidence = 0
    /\ answer = ""
    /\ sources = <<>>
    /\ metrics = {}
    /\ execution_details = {}
    /\ r_result = {}

\* Python's None where a key is expected
NoKey == "<None>"

ApiIdle ==
    /\ rot_pc = "idle"
    /\ rot_ops = 0
    /\ rot_last = ""
    /\ gnk_result = NoKey
    /\ gnk_examined = <<>>
    /\ gnk_run = <<>>

InvokeIdle ==
    /\ iv_pc = "idle"
    /\ iv_max_retries = 0
    /\ iv_cooldown = 0
    /\ iv_attempt = 0
    /\ iv_log = <<>>
    /\ iv_error = ""

CallersIdle ==
    /\ c_pc = <<>>
    /\ c_key = <<>>
    /\ c_marked = <<>>

RoutedIdle ==
    /\ limited = {}
    /\ rq_pc = <<>>
    /\ rq_category = <<>>
    /\ rq_confidence = <<>>
    /\ rq_technique = <<>>
    /\ rq_result = <<>>

RotatorIdle ==
    /\ _keys = <<>>
    /\ _current_index = 0
    /\ now = 0
    /\ ApiIdle
    /\ InvokeIdle
    /\ CallersIdle
    /\ RoutedIdle

FilterIdle ==
    /\ fl_pc = "idle"
    /\ fl_docs = <<>>
    /\ fl_entities = {}
    /\ fl_top_k = 5
    /\ relevant_docs = <<>>

QueryIdle ==
    /\ q_pc = "idle"
    /\ request_technique = "baseline"
    /\ request_top_k = 5
    /\ indexed = 0
    /\ technique_params = <<>>
    /\ q_selected = ""
    /\ q_sources = 0

ExpansionIdle ==
    /\ e_pc = "idle"
    /\ e_technique = "fusion"
    /\ num_variations = 3
    /\ e_outcome = "<none>"
    /\ e_response = <<>>
    /\ query_variations = <<>>
    /\ search_calls = 0

(***************************************************************************)
(* Rank Fusion Combiner (fusion.py).                                       *)
(*                                                                         *)
(* A ranked list is a sequence of contents; the document and the score the *)
(* vector store returned for the occurrence at rank r of list i are        *)
(* identified by the position (i, r).                                      *)
(*                                                                         *)
(* The code adds the floats 1.0/(k+rank).  The model keeps the sum exact:  *)
(* a fused score is the integer numerator of a fraction whose denominator  *)
(* is Scale(k), the product of every k+r a rank can produce.               *)
(***************************************************************************)
Contents == {"A", "B", "C"}

\* values of the rrf_k parameter (default 60)
RrfKs == {1, 60}

\* the Document at rank r of list i: its page_content and its metadata
Doc(c, i, r) == [page_content |-> c, metadata |-> <<i, r>>]

\* the similarity score the store gives rank r of list i (descending in r)
StoreScore(i, r) == 100 - (10 * i) - r

RECURSIVE ScaleTo(_, _)
ScaleTo(k, r) == IF r = 0 THEN 1 ELSE (k + r) * ScaleTo(k, r - 1)

Scale(k) == ScaleTo(k, MaxLen)

\* the term if the ranks were counted from 0 (enumerate without start=1)
RankTermZeroBased(k, rank) == Scale(k) \div (k + rank - 1)

\* 1.0 / (k + rank), as a numerator over Scale(k)
RankTerm(k, rank) == Scale(k) \div (k + rank)

(***************************************************************************)
(* rrf_scores holds Python floats (IEEE 754 binary64): every `+=` rounds    *)
(* the sum to 53 significant bits, to nearest, ties to even.  A float is    *)
(* written here as three limbs of 20 bits, hi mid lo, counting units of     *)
(* 2^-60; every value met (1/128 <= x < 4) is a whole number of such units. *)
(***************************************************************************)
RECURSIVE Pow2(_)
Pow2(n) == IF n = 0 THEN 1 ELSE 2 * Pow2(n - 1)

RECURSIVE Bits(_)
\* the number of binary digits of h
Bits(h) == IF h = 0 THEN 0 ELSE 1 + Bits(h \div 2)

Limb == Pow2(20)

FloatZero == [hi |-> 0, mid |-> 0, lo |-> 0]

\* carries between the limbs
FloatCarry(hi, mid, lo) ==
    LET m == mid + (lo \div Limb)
    IN  [hi |-> hi + (m \div Limb), mid |-> m % Limb, lo |-> lo % Limb]

\* round to 53 significant bits, to nearest, ties to even; sticky tells
\* that the exact value lies above the limbs given
FloatRound(x, sticky) ==
    LET drop == Bits(x.hi) + 40 - 53
        unit == Pow2(drop)
        low == x.lo % unit
        half == unit \div 2
        odd == (x.lo \div unit) % 2 = 1
        up == \/ low > half
              \/ low = half /\ (sticky \/ odd)
    IN  FloatCarry(x.hi, x.mid, (x.lo - low) + (IF up THEN unit ELSE 0))

\* 1.0 / d
FloatReciprocal(d) ==
    LET hi == Limb \div d
        r1 == Limb % d
        mid == (r1 * Limb) \div d
        r2 == (r1 * Limb) % d
        lo == (r2 * Limb) \div d
        r3 == (r2 * Limb) % d
    IN  FloatRound([hi |-> hi, mid |-> mid, lo |-> lo], r3 # 0)

\* x + y
FloatAdd(x, y) ==
    IF x = FloatZero THEN y
    ELSE IF y = FloatZero THEN x
    ELSE FloatRound(FloatCarry(x.hi + y.hi, x.mid + y.mid, x.lo + y.lo), FALSE)

\* the step if it assigned the term instead of adding it
FloatRrfStepAssign(scores, occ, k) ==
    [scores EXCEPT ![occ.doc.page_content] = FloatReciprocal(k + occ.rank)]

\* rrf_scores[content] += 1.0 / (k + rank), in floats
FloatRrfStep(scores, occ, k) ==
    [scores EXCEPT ![occ.doc.page_content] = FloatAdd(@, FloatReciprocal(k + occ.rank))]

RECURSIVE FloatRrfLoop(_, _, _, _)
\* rrf_scores after the two nested loops, in floats
FloatRrfLoop(scores, occs, n, k) ==
    IF n > Len(occs) THEN scores
    ELSE FloatRrfLoop(FloatRrfStep(scores, occs[n], k), occs, n + 1, k)

RECURSIVE Occurrences(_, _, _)
\* the (doc, score) pairs in the order the two nested loops visit them
Occurrences(results, i, r) ==
    IF i > Len(results) THEN <<>>
    ELSE IF r > Len(results[i]) THEN Occurrences(results, i + 1, 1)
    ELSE <<[doc |-> Doc(results[i][r], i, r), score |-> StoreScore(i, r), rank |-> r]>>
         \o Occurrences(results, i, r + 1)

\* the three dictionaries before the loops; order is the insertion order of
\* the keys of rrf_scores
RrfEmpty ==
    [order |-> <<>>,
     rrf_scores |-> [c \in Contents |-> 0],
     doc_map |-> [c \in {} |-> 0],
     original_scores |-> [c \in Contents |-> <<>>]]

\* one pass of the loop body
RrfStep(acc, occ, k) ==
    LET content == occ.doc.page_content
    IN  [order |-> IF content \in Range(acc.order) THEN acc.order
                   ELSE Append(acc.order, content),
         rrf_scores |-> [acc.rrf_scores EXCEPT ![content] = @ + RankTerm(k, occ.rank)],
         doc_map |-> [c \in (DOMAIN acc.doc_map) \cup {content} |->
                         IF c = content THEN occ.doc ELSE acc.doc_map[c]],
         original_scores |-> [acc.original_scores EXCEPT ![content] = Append(@, occ.score)]]

RECURSIVE RrfLoop(_, _, _, _)
RrfLoop(acc, occs, n, k) ==
    IF n > Len(occs) THEN acc ELSE RrfLoop(RrfStep(acc, occs[n], k), occs, n + 1, k)

\* key=lambda x: x[1], over the items of rrf_scores
RrfItemScores(items) == [p \in 1..Len(items) |-> items[p].rrf_score]

\* a descending sort that is not stable: equal scores come out in reverse
RrfSortedTiesReversed(items) ==
    LET n == Len(items)
        Pos(i) == Cardinality({j \in 1..n :
                      \/ items[j].rrf_score > items[i].rrf_score
                      \/ (items[j].rrf_score = items[i].rrf_score /\ j > i)}) + 1
    IN  [p \in 1..n |-> items[CHOOSE i \in 1..n : Pos(i) = p]]

\* sorted(rrf_scores.items(), key=lambda x: x[1], reverse=True)
RrfSorted(items) == SortedReverse(items, RrfItemScores(items))

_reciprocal_rank_fusion(results, k, top_k) ==
    LET acc == RrfLoop(RrfEmpty, Occurrences(results, 1, 1), 1, k)
        items == [p \in 1..Len(acc.order) |->
                    [content |-> acc.order[p], rrf_score |-> acc.rrf_scores[acc.order[p]]]]
        sorted_docs == SliceTo(RrfSorted(items), top_k)
    IN  [p \in 1..Len(sorted_docs) |->
            [doc |-> acc.doc_map[sorted_docs[p].content],
             rrf_score |-> sorted_docs[p].rrf_score,
             original_scores |-> acc.original_scores[sorted_docs[p].content]]]

(***************************************************************************)
(* Deduplication and Top-K Selector (subquery.py).                         *)
(*                                                                         *)
(* A candidate is a (doc, score) pair; the metadata of a doc is its place  *)
(* in all_docs, so that two candidates with the same content stay apart.   *)
(* Scores are tenths (7 is 0.7).                                           *)
(***************************************************************************)
DedupContents == {"D1", "D2"}

DedupScores == {5, 7, 9}

\* what one similarity search can return: (content, score) pairs
FoundLists == SeqsUpTo(DedupContents \X DedupScores, MaxFlat)

\* all_docs.extend(docs)
Extend(docs, found) ==
    docs \o [j \in 1..Len(found) |->
                [doc |-> [page_content |-> found[j][1], metadata |-> Len(docs) + j],
                 score |-> found[j][2]]]

\* the loop body if a later duplicate always replaced the one kept
DedupStepKeepLast(seen, cand) ==
    LET content == cand.doc.page_content
    IN  [order |-> IF content \in DOMAIN seen.value THEN seen.order
                   ELSE Append(seen.order, content),
         value |-> [c \in (DOMAIN seen.value) \cup {content} |->
                       IF c = content THEN cand ELSE seen.value[c]]]

\* the loop body of _deduplicate_docs; seen_content is a dict: order is the
\* insertion order of its keys, value its mapping
DedupStep(seen, cand) ==
    LET content == cand.doc.page_content
    IN  IF content \notin DOMAIN seen.value \/ cand.score > seen.value[content].score
        THEN [order |-> IF content \in DOMAIN seen.value THEN seen.order
                        ELSE Append(seen.order, content),
              value |-> [c \in (DOMAIN seen.value) \cup {content} |->
                            IF c = content THEN cand ELSE seen.value[c]]]
        ELSE seen

RECURSIVE DedupLoop(_, _, _)
DedupLoop(seen, docs, n) ==
    IF n > Len(docs) THEN seen ELSE DedupLoop(DedupStep(seen, docs[n]), docs, n + 1)

\* key=lambda x: x[1], over (doc, score) pairs
CandScores(cands) == [p \in 1..Len(cands) |-> cands[p].score]

_deduplicate_docs(docs) ==
    LET seen == DedupLoop([order |-> <<>>, value |-> [c \in {} |-> 0]], docs, 1)
        values == [p \in 1..Len(seen.order) |-> seen.value[seen.order[p]]]
    IN  SortedReverse(values, CandScores(values))

\* the selection without its [:top_k]
SelectTopKUnlimited(unique, k) == SortedReverse(unique, CandScores(unique))

\* sorted(unique_docs, key=lambda x: x[1], reverse=True)[:top_k]
SelectTopK(unique, k) == SliceTo(SortedReverse(unique, CandScores(unique)), k)

DedupInit ==
    /\ RotatorIdle
    /\ FilterIdle
    /\ QueryIdle
    /\ ExpansionIdle
    /\ RouterIdle
    /\ FusionIdle
    /\ GraphIdle
    /\ RerankIdle
    /\ d_pc = "search"
    /\ all_docs = <<>>
    /\ sq_top_k \in 0..MaxTopK
    /\ unique_docs = <<>>
    /\ unique_docs_sorted = <<>>

\* one pass of the sub-query search loop: the store answers, or the call
\* raises and the exception leaves subquery_rag (its locals are gone)
SubquerySearch ==
    /\ d_pc = "search"
    /\ \/ /\ \E found \in FoundLists :
                /\ Len(found) >= 1
                /\ Len(all_docs) + Len(found) <= MaxFlat
                /\ all_docs' = Extend(all_docs, found)
          /\ UNCHANGED d_pc
       \/ /\ d_pc' = "raised"
          /\ all_docs' = <<>>
    /\ UNCHANGED <<sq_top_k, unique_docs, unique_docs_sorted>>
    /\ UNCHANGED notDedup

SubqueryDeduplicate ==
    /\ d_pc = "search"
    /\ unique_docs' = _deduplicate_docs(all_docs)
    /\ d_pc' = "select"
    /\ UNCHANGED <<all_docs, sq_top_k, unique_docs_sorted>>
    /\ UNCHANGED notDedup

SubquerySelectTopK ==
    /\ d_pc = "select"
    /\ unique_docs_sorted' = SelectTopK(unique_docs, sq_top_k)
    /\ d_pc' = "done"
    /\ UNCHANGED <<all_docs, sq_top_k, unique_docs>>
    /\ UNCHANGED notDedup

(***************************************************************************)
(* Entity Graph Builder and Expander (graph_rag.py).                       *)
(*                                                                         *)
(* _extract_entities returns the lines of a generation call; the model     *)
(* draws its result from the lists of distinct entities of bounded length. *)
(***************************************************************************)
Entities == {"Python", "Guido", "1991"}

\* docs[:5] of _build_entity_graph
SampleCap == 5

EntityLists ==
    {l \in SeqsUpTo(Entities, MaxEnts) : \A i, j \in 1..Len(l) : i # j => l[i] # l[j]}

RECURSIVE PairsFrom(_, _, _)
\* for i, e1 in enumerate(entities): for e2 in entities[i+1:]: (e1, e2)
PairsFrom(entities, i, j) ==
    IF i > Len(entities) THEN <<>>
    ELSE IF j > Len(entities) THEN PairsFrom(entities, i + 1, i + 2)
    ELSE <<<<entities[i], entities[j]>>>> \o PairsFrom(entities, i, j + 1)

\* one round that follows every edge from its first entity only
NextLevelOneWay(current_level, edges) ==
    {edges[n][2] : n \in {m \in 1..Len(edges) : edges[m][1] \in current_level}}

\* the inner loop of _expand_entities: the neighbours of current_level
NextLevel(current_level, edges) ==
    {edges[n][2] : n \in {m \in 1..Len(edges) : edges[m][1] \in current_level}}
    \cup {edges[n][1] : n \in {m \in 1..Len(edges) : edges[m][2] \in current_level}}

RECURSIVE ExpandRounds(_, _, _, _)
\* for _ in range(hops)
ExpandRounds(expanded, current_level, edges, hops) ==
    IF hops <= 0 THEN expanded
    ELSE LET next_level == NextLevel(current_level, edges)
         IN  ExpandRounds(expanded \cup next_level, next_level, edges, hops - 1)

_expand_entities(seed_entities, graph, hops) ==
    ExpandRounds(Range(seed_entities), Range(seed_entities), graph.edges, hops)

GraphInit ==
    /\ RotatorIdle
    /\ FilterIdle
    /\ QueryIdle
    /\ ExpansionIdle
    /\ RouterIdle
    /\ FusionIdle
    /\ DedupIdle
    /\ RerankIdle
    /\ g_pc = "extract_query_entities"
    /\ query_entities = <<>>
    /\ entity_graph = [nodes |-> {}, edges |-> <<>>]
    /\ g_sampled = 0
    /\ expansion_hops \in 0..MaxHops
    /\ expanded_entities = {}

\* query_entities = await _extract_entities(query)
GraphExtractQueryEntities ==
    /\ g_pc = "extract_query_entities"
    /\ \/ /\ query_entities' \in EntityLists
          /\ g_pc' = "build_entity_graph"
       \/ /\ g_pc' = "raised"
          /\ UNCHANGED query_entities
    /\ UNCHANGED <<entity_graph, g_sampled, expansion_hops, expanded_entities>>
    /\ UNCHANGED notGraph

\* one pass of the loop of _build_entity_graph over docs[:5]: the call of
\* _extract_entities returns the document's entities, or ainvoke_smart raises
\* and the exception leaves _build_entity_graph and graph_rag
GraphBuildDoc ==
    /\ g_pc = "build_entity_graph"
    /\ g_sampled < Min(MaxGraphDocs, SampleCap)
    /\ \/ /\ \E entities \in EntityLists :
                entity_graph' =
                    [nodes |-> entity_graph.nodes \cup Range(entities),
                     edges |-> entity_graph.edges \o PairsFrom(entities, 1, 2)]
          /\ UNCHANGED g_pc
       \/ /\ g_pc' = "raised"
          /\ UNCHANGED entity_graph
    /\ g_sampled' = g_sampled + 1
    /\ UNCHANGED <<query_entities, expansion_hops, expanded_entities>>
    /\ UNCHANGED notGraph

\* the sampled documents are exhausted: graph expansion
GraphExpand ==
    /\ g_pc = "build_entity_graph"
    /\ expanded_entities' = _expand_entities(query_entities, entity_graph, expansion_hops)
    /\ g_pc' = "done"
    /\ UNCHANGED <<query_entities, entity_graph, g_sampled, expansion_hops>>
    /\ UNCHANGED notGraph

(***************************************************************************)
(* Two-Stage Reranking Orchestrator (reranking_rag.py).                    *)
(*                                                                         *)
(* "<None>" stands for the default cohere_api_key=None.  Scores are tenths.*)
(* The reranking service is external: the model lets it answer with any    *)
(* list of at most top_n results over distinct valid indexes, in any       *)
(* order and with any relevance scores.                                    *)
(***************************************************************************)
ApiKeys == {"<None>", "", "co-key"}

Passages == {"P", "Q"}

OriginalScores == {3, 6}

RelevanceScores == {2, 8}

\* a credential check that only rejects None
NoCredentialNoneOnly(key) == key = "<None>"

\* not cohere_api_key
NoCredential(key) == key = "<None>" \/ key = ""

\* what similarity_search_with_score(query, k) can return: (content, score)
\* pairs; the metadata of a passage is its place in the list
InitialDocLists(k) ==
    {[i \in 1..Len(l) |->
        [doc |-> [page_content |-> l[i][1], metadata |-> i], score |-> l[i][2]]] :
     l \in SeqsUpTo(Passages \X OriginalScores, Min(k, MaxStore))}

\* what cohere_client.rerank(documents, top_n) can return
RerankResponses(documents, top_n) ==
    {[p \in 1..Len(l) |-> [index |-> l[p][1], relevance_score |-> l[p][2]]] :
     l \in {m \in SeqsUpTo((1..Len(documents)) \X RelevanceScores,
                           Min(top_n, Len(documents))) :
               \A p, q \in 1..Len(m) : p # q => m[p][1] # m[q][1]}}

\* the loop if it listed the candidates in stage-1 order instead
RerankedSourcesInStageOneOrder(docs, results) ==
    LET byIndex == SortedReverse(results, [p \in 1..Len(results) |-> 0 - results[p].index])
    IN  [p \in 1..Len(byIndex) |->
            [content |-> docs[byIndex[p].index].doc.page_content,
             metadata |-> docs[byIndex[p].index].doc.metadata,
             original_score |-> docs[byIndex[p].index].score,
             rerank_score |-> byIndex[p].relevance_score,
             rerank_index |-> byIndex[p].index]]

\* the loop if it took the candidate at the place of the result in the
\* response instead of the candidate at result.index
RerankedSourcesByPlace(docs, results) ==
    [p \in 1..Len(results) |->
        [content |-> docs[p].doc.page_content,
         metadata |-> docs[p].doc.metadata,
         original_score |-> docs[p].score,
         rerank_score |-> results[p].relevance_score,
         rerank_index |-> results[p].index]]

\* documents_to_rerank = [doc.page_content for doc, _ in initial_docs]
DocumentsToRerank(docs) == [i \in 1..Len(docs) |-> docs[i].doc.page_content]

\* for result in rerank_response.results: reranked_sources.append({...});
\* result.index counts from 0 in the code, from 1 here
RerankedSources(docs, results) ==
    [p \in 1..Len(results) |->
        [content |-> docs[results[p].index].doc.page_content,
         metadata |-> docs[results[p].index].doc.metadata,
         original_score |-> docs[results[p].index].score,
         rerank_score |-> results[p].relevance_score,
         rerank_index |-> results[p].index]]

RerankInit ==
    /\ RotatorIdle
    /\ FilterIdle
    /\ QueryIdle
    /\ ExpansionIdle
    /\ RouterIdle
    /\ FusionIdle
    /\ DedupIdle
    /\ GraphIdle
    /\ rr_pc = "start"
    /\ cohere_api_key \in ApiKeys
    /\ rr_top_k \in 1..MaxTopK
    /\ initial_docs = <<>>
    /\ documents_to_rerank = <<>>
    /\ rerank_response = <<>>
    /\ reranked_sources = <<>>
    /\ stage1_calls = 0
    /\ stage2_calls = 0

\* if not cohere_api_key: raise ValueError(...)
RerankCheckCredential ==
    /\ rr_pc = "start"
    /\ rr_pc' = IF NoCredential(cohere_api_key) THEN "raised" ELSE "initial_retrieval"
    /\ UNCHANGED <<cohere_api_key, rr_top_k, initial_docs, documents_to_rerank,
                   rerank_response, reranked_sources, stage1_calls, stage2_calls>>
    /\ UNCHANGED notRerank

\* Step 3: initial retrieval with k = initial_top_k = top_k * 4
RerankInitialRetrieval ==
    /\ rr_pc = "initial_retrieval"
    /\ stage1_calls' = stage1_calls + 1
    /\ initial_docs' \in InitialDocLists(rr_top_k * 4)
    /\ rr_pc' = "rerank"
    /\ UNCHANGED <<cohere_api_key, rr_top_k, documents_to_rerank, rerank_response,
                   reranked_sources, stage2_calls>>
    /\ UNCHANGED notRerank

\* Step 4: the rerank call with top_n = final_top_n = top_k, and the loop
\* that extracts the reranked results
RerankStageTwo ==
    /\ rr_pc = "rerank"
    /\ stage2_calls' = stage2_calls + 1
    /\ documents_to_rerank' = DocumentsToRerank(initial_docs)
    /\ \E response \in RerankResponses(DocumentsToRerank(initial_docs), rr_top_k) :
          /\ rerank_response' = response
          /\ reranked_sources' = RerankedSources(initial_docs, response)
    /\ rr_pc' = "done"
    /\ UNCHANGED <<cohere_api_key, rr_top_k, initial_docs, stage1_calls>>
    /\ UNCHANGED notRerank

(***************************************************************************)
(* Adaptive Strategy Router (adaptive/orchestrator.py, prompts.py,         *)
(* tools.py).  Categories are strs (character sequences) as the classifier *)
(* text is; technique names are written as TLA+ strings.  Confidence is in *)
(* hundredths (90 is 0.90).                                                *)
(***************************************************************************)
simple == <<"s", "i", "m", "p", "l", "e">>
complex == <<"c", "o", "m", "p", "l", "e", "x">>
abstract == <<"a", "b", "s", "t", "r", "a", "c", "t">>
precision == <<"p", "r", "e", "c", "i", "s", "i", "o", "n">>

VALID_CATEGORIES == <<simple, complex, abstract, precision>>

DEFAULT_TECHNIQUE == "baseline"

\* the dict CATEGORY_TO_TECHNIQUE of prompts.py
CategoryTable ==
    (simple :> "baseline") @@ (complex :> "subquery") @@
    (abstract :> "hyde") @@ (precision :> "reranking")

\* a lookup whose default is a technique outside the core set
CategoryToTechniqueDefaultFusion(category) ==
    IF category \in DOMAIN CategoryTable THEN CategoryTable[category] ELSE "fusion"

\* CATEGORY_TO_TECHNIQUE.get(category, DEFAULT_TECHNIQUE)
CATEGORY_TO_TECHNIQUE(category) ==
    IF category \in DOMAIN CategoryTable THEN CategoryTable[category] ELSE DEFAULT_TECHNIQUE

CORE_TECHNIQUES == <<"baseline", "reranking", "subquery", "hyde">>

OPTIONAL_TECHNIQUES == <<"fusion", "graph">>

ALL_TECHNIQUES == CORE_TECHNIQUES \o OPTIONAL_TECHNIQUES

\* ALL_TECHNIQUES.get(name, baseline_rag): the function that will run
get_technique_function(name) ==
    IF name \in Range(ALL_TECHNIQUES) THEN name ELSE "baseline"

\* texts the classifier call can answer with (response.content)
ClassifierResponses ==
    {<<"s", "i", "m", "p", "l", "e">>,
     <<"c", "o", "m", "p", "l", "e", "x">>,
     <<"a", "b", "s", "t", "r", "a", "c", "t">>,
     <<"p", "r", "e", "c", "i", "s", "i", "o", "n">>,
     <<"C", "o", "m", "p", "l", "e", "x", ".">>,
     <<" ", "P", "r", "e", "c", "i", "s", "i", "o", "n", "\n">>,
     <<"b", "a", "n", "a", "n", "a">>,
     <<"c", "a", "t", "e", "g", "o", "r", "y", ":", " ", "c", "o", "m", "p", "l", "e", "x">>,
     <<"*", "*", "a", "b", "s", "t", "r", "a", "c", "t", "*", "*">>,
     <<"s", "i", "m", "p", "l", "e", "s">>,
     <<>>,
     <<" ", " ", "\n">>,
     <<"t", "h", "e", " ", "a", "n", "s", "w", "e", "r", " ", "i", "s", " ", "p", "r", "e", "c", "i", "s", "i", "o", "n">>,
     <<"1", ".", " ", "s", "i", "m", "p", "l", "e">>,
     <<"c", "o", "m", "p", "l", "e", "x", "i", "t", "y">>}

\* the validation without its fallback to "simple"
ValidateCategoryNoFallback(classification) ==
    IF classification \in Range(VALID_CATEGORIES) THEN classification
    ELSE LET found == {n \in 1..Len(VALID_CATEGORIES) :
                          StrContains(VALID_CATEGORIES[n], classification)}
         IN  IF found # {}
             THEN VALID_CATEGORIES[CHOOSE n \in found : \A m \in found : n <= m]
             ELSE classification

\* if classification not in VALID_CATEGORIES: for cat in VALID_CATEGORIES: ...
\* else: "simple"
ValidateCategory(classification) ==
    IF classification \in Range(VALID_CATEGORIES) THEN classification
    ELSE LET found == {n \in 1..Len(VALID_CATEGORIES) :
                          StrContains(VALID_CATEGORIES[n], classification)}
         IN  IF found # {}
             THEN VALID_CATEGORIES[CHOOSE n \in found : \A m \in found : n <= m]
             ELSE simple

\* the clean-up of the response: strip, lower, first word, letters only
CleanUp(content) ==
    LET classification == StrLower(StrStrip(content))
    IN  KeepAlpha(IF classification # <<>> THEN FirstWord(classification) ELSE simple)

\* the try block of classify_query_node
Classification(content) == ValidateCategory(CleanUp(content))

\* errors a technique can raise while it runs
ExecuteErrors == {"ValueError", "RuntimeError", "ConnectionError"}

\* the result dict of a technique that returned n sources
TechniqueResult(name, n) ==
    [answer |-> [kind |-> "answer", technique |-> name, error |-> "<none>"],
     sources |-> [i \in 1..n |-> i],
     metrics |-> {"latency_ms", "technique"}]

\* an except clause that re-raises
ExecuteFailedPropagates(name, e) ==
    [pc |-> "raised",
     answer |-> "",
     sources |-> <<>>,
     metrics |-> {}]

\* except Exception as e: of execute_rag_node
ExecuteFailed(name, e) ==
    [pc |-> "build",
     answer |-> [kind |-> "Erro ao executar tecnica", technique |-> name, error |-> e],
     sources |-> <<>>,
     metrics |-> {}]

RouterInit ==
    /\ RotatorIdle
    /\ FilterIdle
    /\ QueryIdle
    /\ ExpansionIdle
    /\ FusionIdle
    /\ DedupIdle
    /\ GraphIdle
    /\ RerankIdle
    /\ r_pc = "classify"
    /\ COHERE_API_KEY \in {"", "co-key"}
    /\ classify_outcome = "<none>"
    /\ classifier_response = <<>>
    /\ execute_outcome = "<none>"
    /\ query_type = <<>>
    /\ technique = ""
    /\ confidence = 0
    /\ answer = ""
    /\ sources = <<>>
    /\ metrics = {}
    /\ execution_details = {}
    /\ r_result = {}

\* a confidence that is lowered whenever the category is the fallback
ClassifyConfidenceLowOnFallback(outcome, category) ==
    IF outcome = "invoke raised" \/ category = simple THEN 50 ELSE 90

\* state["confidence"]: 0.90 at the end of the try, 0.5 in the except, in
\* hundredths
ClassifyConfidence(outcome, category) == IF outcome = "invoke raised" THEN 50 ELSE 90

\* classify_query_node: get_llm raises RuntimeError outside the try when the
\* rotator has no key to give; inside the try the call raises or answers
classify_query_node ==
    /\ r_pc = "classify"
    /\ \/ /\ classify_outcome' = "get_llm raised"
          /\ r_pc' = "raised"
          /\ UNCHANGED <<classifier_response, query_type, confidence>>
       \/ /\ classify_outcome' = "invoke raised"
          /\ query_type' = simple
          /\ confidence' = ClassifyConfidence("invoke raised", simple)
          /\ r_pc' = "select"
          /\ UNCHANGED classifier_response
       \/ \E content \in ClassifierResponses :
             /\ classify_outcome' = "answered"
             /\ classifier_response' = content
             /\ query_type' = Classification(content)
             /\ confidence' = ClassifyConfidence("answered", Classification(content))
             /\ r_pc' = "select"
    /\ UNCHANGED <<COHERE_API_KEY, execute_outcome, technique, answer, sources, metrics,
                   execution_details, r_result>>
    /\ UNCHANGED notRouter

select_technique_node ==
    /\ r_pc = "select"
    /\ technique' = CATEGORY_TO_TECHNIQUE(query_type)
    /\ r_pc' = "execute"
    /\ UNCHANGED <<COHERE_API_KEY, classify_outcome, classifier_response, execute_outcome,
                   query_type,
                   confidence, answer, sources, metrics, execution_details, r_result>>
    /\ UNCHANGED notRouter

\* execute_rag_node: the technique returns a result or raises; reranking_rag
\* raises ValueError at once when the configured credential is empty, and
\* otherwise makes its stage-1 retrieval call, then its stage-2 rerank call
execute_rag_node ==
    /\ r_pc = "execute"
    /\ \/ /\ ~(technique = "reranking" /\ NoCredential(COHERE_API_KEY))
          /\ \E n \in 0..MaxTopK :
                LET result == TechniqueResult(get_technique_function(technique), n)
                IN  /\ answer' = result.answer
                    /\ sources' = result.sources
                    /\ metrics' = result.metrics
          /\ execute_outcome' = "returned"
          /\ r_pc' = "build"
          /\ stage1_calls' = stage1_calls + (IF technique = "reranking" THEN 1 ELSE 0)
          /\ stage2_calls' = stage2_calls + (IF technique = "reranking" THEN 1 ELSE 0)
       \/ \E e \in ExecuteErrors, made1, made2 \in {0, 1} :
             /\ (technique = "reranking" /\ NoCredential(COHERE_API_KEY)) =>
                    (e = "ValueError" /\ made1 = 0)
             /\ technique # "reranking" => made1 = 0
             /\ made2 <= made1
             /\ stage1_calls' = stage1_calls + made1
             /\ stage2_calls' = stage2_calls + made2
             /\ LET handled == ExecuteFailed(technique, e)
                IN  /\ answer' = handled.answer
                    /\ sources' = handled.sources
                    /\ metrics' = handled.metrics
                    /\ r_pc' = handled.pc
             /\ execute_outcome' = "raised"
    /\ UNCHANGED <<COHERE_API_KEY, classify_outcome, classifier_response, query_type,
                   technique, confidence,
                   execution_details, r_result>>
    /\ UNCHANGED <<rr_pc, cohere_api_key, rr_top_k, initial_docs, documents_to_rerank,
                   rerank_response, reranked_sources>>
    /\ UNCHANGED notRouterNorRerank

build_response_node ==
    /\ r_pc = "build"
    /\ execution_details' =
          [query_type |-> query_type,
           technique_selected |-> technique,
           confidence |-> confidence,
           available_techniques |-> CORE_TECHNIQUES]
    /\ r_pc' = "END"
    /\ UNCHANGED <<COHERE_API_KEY, classify_outcome, classifier_response, execute_outcome,
                   query_type,
                   technique, confidence, answer, sources, metrics, r_result>>
    /\ UNCHANGED notRouter

\* run_adaptive_rag after graph.invoke: the dict it returns
run_adaptive_rag_return ==
    /\ r_pc = "END"
    /\ r_result' =
          [answer |-> answer,
           sources |-> sources,
           metrics |-> [technique_metrics |-> metrics,
                        technique |-> "adaptive_rag",
                        selected_technique |-> technique,
                        query_classification |-> query_type,
                        routing_confidence |-> confidence],
           execution_details |-> execution_details]
    /\ r_pc' = "returned"
    /\ UNCHANGED <<COHERE_API_KEY, classify_outcome, classifier_response, execute_outcome,
                   query_type,
                   technique, confidence, answer, sources, metrics, execution_details>>
    /\ UNCHANGED notRouter

(***************************************************************************)
(* Query expansion and the per-variant search loop (fusion.py,             *)
(* subquery.py, hyde_rag.py).                                              *)
(*                                                                         *)
(* The generation call answers with text; the model draws the lines of     *)
(* response.strip().split('\n') from RawLines: a blank line, a paraphrase  *)
(* with blanks around it, a line that starts with '#'.                     *)
(***************************************************************************)
Query == <<"q">>

RawLines == {<<" ">>, <<" ", "p", " ">>, <<"#", "h">>}

GenerationResponses == SeqsUpTo(RawLines, MaxLines)

\* if len(hypothesis) < 20
MinHypothesisLen == 20

XText(n) == [i \in 1..n |-> "x"]

\* texts the hypothesis call can answer with: empty, too short, long enough
HypothesisTexts ==
    {XText(0), XText(MinHypothesisLen - 1), XText(MinHypothesisLen),
     <<" ">> \o XText(MinHypothesisLen - 1) \o <<"\n">>}

\* if line.strip()
NonBlank(line) == StrStrip(line) # <<>>

\* if line.strip() and not line.strip().startswith('#')
NotHeading(line) == StrStrip(line) # <<>> /\ StrStrip(line)[1] # "#"

\* [line.strip() for line in ...]
StripAll(lines) == [i \in 1..Len(lines) |-> StrStrip(lines[i])]

\* fusion.py: [query] + variations[:num_variations - 1]
_generate_query_variations(query, response, n) ==
    LET variations == StripAll(SelectSeq(response, NonBlank))
    IN  <<query>> \o SliceTo(variations, n - 1)

\* subquery.py: subqueries[:max_subqueries]
_decompose_query(query, response, max_subqueries) ==
    SliceTo(StripAll(SelectSeq(response, NotHeading)), max_subqueries)

\* the hypothesis if its length were taken before hypothesis.strip()
GenerateHypothesisRawLength(query, text) ==
    IF Len(text) < MinHypothesisLen THEN query ELSE StrStrip(text)

\* hyde_rag.py: the stripped text, or the query when it is under 20 characters
_generate_hypothesis(query, text) ==
    LET hypothesis == StrStrip(text)
    IN  IF Len(hypothesis) < MinHypothesisLen THEN query ELSE hypothesis

ExpansionInit ==
    /\ RotatorIdle
    /\ FilterIdle
    /\ QueryIdle
    /\ FusionIdle
    /\ DedupIdle
    /\ GraphIdle
    /\ RerankIdle
    /\ RouterIdle
    /\ e_pc = "expand"
    /\ \/ e_technique \in {"fusion", "subquery"} /\ num_variations \in (-1)..MaxN
       \/ e_technique = "hyde" /\ num_variations = 1
    /\ e_outcome = "<none>"
    /\ e_response = <<>>
    /\ query_variations = <<>>
    /\ search_calls = 0

\* query_variations = await _generate_query_variations(query, num_queries):
\* ainvoke_smart answers, or raises and the exception leaves fusion_rag
FusionGenerateQueryVariations ==
    /\ e_pc = "expand"
    /\ e_technique = "fusion"
    /\ \/ \E response \in GenerationResponses :
             /\ e_response' = response
             /\ query_variations' = _generate_query_variations(Query, response, num_variations)
             /\ e_outcome' = "returned"
             /\ e_pc' = "search"
       \/ /\ e_outcome' = "raised"
          /\ e_pc' = "raised"
          /\ UNCHANGED <<e_response, query_variations>>
    /\ UNCHANGED <<e_technique, num_variations, search_calls>>
    /\ UNCHANGED notExpansion

\* subqueries = await _decompose_query(query, max_subqueries)
\* if len(subqueries) <= 1: subqueries = [query]
SubqueryDecomposeQuery ==
    /\ e_pc = "expand"
    /\ e_technique = "subquery"
    /\ \/ \E response \in GenerationResponses :
             LET subqueries == _decompose_query(Query, response, num_variations)
             IN  /\ e_response' = response
                 /\ query_variations' =
                        IF Len(subqueries) <= 1 THEN <<Query>> ELSE subqueries
                 /\ e_outcome' = "returned"
                 /\ e_pc' = "search"
       \/ /\ e_outcome' = "raised"
          /\ e_pc' = "raised"
          /\ UNCHANGED <<e_response, query_variations>>
    /\ UNCHANGED <<e_technique, num_variations, search_calls>>
    /\ UNCHANGED notExpansion

\* hypothesis = await _generate_hypothesis(query)
HydeGenerateHypothesis ==
    /\ e_pc = "expand"
    /\ e_technique = "hyde"
    /\ \/ \E text \in HypothesisTexts :
             /\ e_response' = <<text>>
             /\ query_variations' = <<_generate_hypothesis(Query, text)>>
             /\ e_outcome' = "returned"
             /\ e_pc' = "search"
       \/ /\ e_outcome' = "raised"
          /\ e_pc' = "raised"
          /\ UNCHANGED <<e_response, query_variations>>
    /\ UNCHANGED <<e_technique, num_variations, search_calls>>
    /\ UNCHANGED notExpansion

\* one pass of `for q in query_variations` (one search for the hypothesis):
\* vector_store.similarity_search_with_score returns, or raises and the
\* exception leaves the technique
VariantSearch ==
    /\ e_pc = "search"
    /\ search_calls < Len(query_variations)
    /\ search_calls' = search_calls + 1
    /\ \/ UNCHANGED e_pc
       \/ e_pc' = "raised"
    /\ UNCHANGED <<e_technique, num_variations, e_outcome, e_response, query_variations>>
    /\ UNCHANGED notExpansion

\* the loop has ended: aggregation follows
VariantSearchDone ==
    /\ e_pc = "search"
    /\ search_calls = Len(query_variations)
    /\ e_pc' = "done"
    /\ UNCHANGED <<e_technique, num_variations, e_outcome, e_response, query_variations,
                   search_calls>>
    /\ UNCHANGED notExpansion

ExpansionNext ==
    \/ FusionGenerateQueryVariations
    \/ SubqueryDecomposeQuery
    \/ HydeGenerateHypothesis
    \/ VariantSearch
    \/ VariantSearchDone

SpecExpansion == ExpansionInit /\ [][ExpansionNext]_vars

(***************************************************************************)
(* The query endpoint (api/routes.py: query_rag) and the number of sources *)
(* each technique returns.                                                 *)
(*                                                                         *)
(* The namespace holds `indexed` documents of distinct content; a search   *)
(* with k=k returns the min(k, indexed) nearest.  A technique is modelled  *)
(* by the lengths its sources list can have, computed from its parameters  *)
(* the way its code slices.                                                *)
(***************************************************************************)
RequestTechniques ==
    {"baseline", "hyde", "reranking", "fusion", "subquery", "graph", "adaptive"}

\* top_k: int = 5 of baseline_rag, hyde_rag, reranking_rag, subquery_rag and
\* final_top_k: int = 5 of fusion_rag and graph_rag
DefaultTopK == 5
\* fusion_rag: num_queries: int = 3
NumQueries == 3
\* fusion_rag: top_k_per_query: int = 10
TopKPerQuery == 10
\* subquery_rag: max_subqueries: int = 3
MaxSubqueries == 3
\* graph_rag: initial_top_k: int = 10
InitialTopK == 10
\* execute_rag_node: kwargs["top_k_per_subquery"] = 5
RouterTopKPerSubquery == 5

\* a keyword argument, or the default of the signature when it is not passed
Param(params, name, default) == IF name \in DOMAIN params THEN params[name] ELSE default

\* len(vector_store.similarity_search_with_score(q, k=k))
Search(k, n) == Min(k, n)

\* how many distinct contents m searches with k=k can return together
DistinctFound(m, k, n) == Search(k, n)..Min(n, m * Search(k, n))

\* baseline_rag and hyde_rag: one search with k=top_k
BaselineSources(params, n) == {Search(Param(params, "top_k", DefaultTopK), n)}

\* reranking_rag: 4 * top_k candidates, at most top_n = top_k results back
RerankingSources(params, n) ==
    LET k == Param(params, "top_k", DefaultTopK)
    IN  0..Min(k, Search(4 * k, n))

\* fusion_rag: [:final_top_k] of the distinct contents of up to num_queries lists
FusionSources(params, n) ==
    {Min(Param(params, "final_top_k", DefaultTopK), d) :
        d \in UNION {DistinctFound(m, Param(params, "top_k_per_query", TopKPerQuery), n) :
                        m \in 1..NumQueries}}

\* subquery_rag: [:top_k] of the deduplicated documents of up to max_subqueries
\* searches with k=top_k_per_subquery
SubquerySources(params, n) ==
    {Min(Param(params, "top_k", DefaultTopK), d) :
        d \in UNION {DistinctFound(m, Param(params, "top_k_per_subquery", DefaultTopK), n) :
                        m \in 1..MaxSubqueries}}

\* graph_rag: scored_docs[:final_top_k] of the initial_top_k documents
GraphSources(params, n) ==
    {Min(Param(params, "final_top_k", DefaultTopK),
         Search(Param(params, "initial_top_k", InitialTopK), n))}

\* the lengths of the sources of a technique called with keyword arguments params
TechniqueSources(name, params, n) ==
    CASE name = "baseline" -> BaselineSources(params, n)
      [] name = "hyde" -> BaselineSources(params, n)
      [] name = "reranking" -> RerankingSources(params, n)
      [] name = "fusion" -> FusionSources(params, n)
      [] name = "subquery" -> SubquerySources(params, n)
      [] name = "graph" -> GraphSources(params, n)

\* execute_rag_node: kwargs = {} / cohere_api_key / top_k_per_subquery = 5
RouterKwargs(name) ==
    IF name = "subquery" THEN [top_k_per_subquery |-> RouterTopKPerSubquery] ELSE <<>>

\* query_rag: technique_params built from the request
TechniqueParams(name, top_k) ==
    CASE name = "fusion" -> [final_top_k |-> top_k, top_k_per_query |-> top_k * 2]
      [] name = "subquery" -> [top_k_per_subquery |-> top_k]
      [] name = "graph" -> [initial_top_k |-> top_k * 2, final_top_k |-> top_k]
      [] OTHER -> [top_k |-> top_k]

QueryInit ==
    /\ RotatorIdle
    /\ FilterIdle
    /\ FusionIdle
    /\ DedupIdle
    /\ GraphIdle
    /\ RerankIdle
    /\ RouterIdle
    /\ ExpansionIdle
    /\ q_pc = "request"
    /\ request_technique \in RequestTechniques
    /\ request_top_k \in 1..MaxRequested
    /\ indexed \in 0..MaxIndexed
    /\ technique_params = <<>>
    /\ q_selected = ""
    /\ q_sources = 0

\* query_rag up to the call: the keyword arguments of the technique
QueryPrepare ==
    /\ q_pc = "request"
    /\ technique_params' = TechniqueParams(request_technique, request_top_k)
    /\ q_pc' = "call"
    /\ UNCHANGED <<request_technique, request_top_k, indexed, q_selected, q_sources>>
    /\ UNCHANGED notQuery

\* result = technique_func(**technique_params) for a technique called directly:
\* it returns its sources, or raises and query_rag answers HTTP 500
QueryCallTechnique ==
    /\ q_pc = "call"
    /\ request_technique # "adaptive"
    /\ q_selected' = request_technique
    /\ \/ /\ q_sources' \in TechniqueSources(request_technique, technique_params, indexed)
          /\ q_pc' = "result"
       \/ /\ q_pc' = "http_500"
          /\ UNCHANGED q_sources
    /\ UNCHANGED <<request_technique, request_top_k, indexed, technique_params>>
    /\ UNCHANGED notQuery

\* adaptive_rag(query, top_k, namespace): run_adaptive_rag(query, namespace);
\* the router classifies, selects and runs the technique with RouterKwargs;
\* a raising technique gives sources = [], a raising get_llm HTTP 500
QueryCallAdaptive ==
    /\ q_pc = "call"
    /\ request_technique = "adaptive"
    /\ \/ \E n \in 1..Len(VALID_CATEGORIES) :
             LET name == get_technique_function(CATEGORY_TO_TECHNIQUE(VALID_CATEGORIES[n]))
             IN  /\ q_selected' = name
                 /\ \/ q_sources' \in TechniqueSources(name, RouterKwargs(name), indexed)
                    \/ q_sources' = 0
                 /\ q_pc' = "result"
       \/ /\ q_pc' = "http_500"
          /\ UNCHANGED <<q_selected, q_sources>>
    /\ UNCHANGED <<request_technique, request_top_k, indexed, technique_params>>
    /\ UNCHANGED notQuery

\* the QueryResponse: num_docs_retrieved = len(result["sources"])
QueryRespond ==
    /\ q_pc = "result"
    /\ q_pc' = "responded"
    /\ UNCHANGED <<request_technique, request_top_k, indexed, technique_params, q_selected,
                   q_sources>>
    /\ UNCHANGED notQuery

QueryNext == QueryPrepare \/ QueryCallTechnique \/ QueryCallAdaptive \/ QueryRespond

SpecQuery == QueryInit /\ [][QueryNext]_vars

(***************************************************************************)
(* Entity re-ranking of graph_rag.py: _filter_docs_by_entities.            *)
(*                                                                         *)
(* Original scores are tenths (5 is 0.5); a combined score                 *)
(* original_score * (1 + entity_matches * 0.1) is kept in hundredths, as   *)
(* original_score * (10 + entity_matches).                                 *)
(***************************************************************************)
FilterContents == {<<"P", "y">>, <<"p", "y", "G", "o">>, <<"x">>}

\* original scores, in tenths; a cosine similarity can be negative
FilterScores == {-5, 5, 6}

FilterEntities == {<<"p", "y">>, <<"P", "Y">>, <<"G", "o">>, <<"z", "z">>}

\* the (doc, original_score) pairs of initial_docs; the metadata of a doc is
\* its place in the list
FilterDocLists ==
    {[i \in 1..Len(l) |->
        [doc |-> [page_content |-> l[i][1], metadata |-> i], score |-> l[i][2]]] :
     l \in SeqsUpTo(FilterContents \X FilterScores, MaxFilterDocs)}

\* a count that compares the entity and the content as they are written
EntityMatchesCaseSensitive(content, entities) ==
    Cardinality({entity \in entities : StrContains(entity, content)})

\* sum(1 for entity in entities if entity.lower() in content_lower)
EntityMatches(content, entities) ==
    Cardinality({entity \in entities : StrContains(StrLower(entity), StrLower(content))})

\* original_score * (1 + entity_matches * 0.1), in hundredths
CombinedScore(original_score, entity_matches) == original_score * (10 + entity_matches)

\* the loop that fills scored_docs
ScoredDocs(docs, entities) ==
    [i \in 1..Len(docs) |->
        [doc |-> docs[i].doc,
         score |-> CombinedScore(docs[i].score,
                                 EntityMatches(docs[i].doc.page_content, entities))]]

\* scored_docs.sort(key=lambda x: x[1], reverse=True); return scored_docs[:top_k]
_filter_docs_by_entities(docs, entities, top_k) ==
    LET scored_docs == ScoredDocs(docs, entities)
    IN  SliceTo(SortedReverse(scored_docs, CandScores(scored_docs)), top_k)

FilterInit ==
    /\ RotatorIdle
    /\ FusionIdle
    /\ DedupIdle
    /\ GraphIdle
    /\ RerankIdle
    /\ RouterIdle
    /\ ExpansionIdle
    /\ QueryIdle
    /\ fl_pc = "filter"
    /\ fl_docs \in FilterDocLists
    /\ fl_entities \in SUBSET FilterEntities
    /\ fl_top_k \in 0..MaxTopK
    /\ relevant_docs = <<>>

\* relevant_docs = _filter_docs_by_entities(initial_docs, expanded_entities, final_top_k)
GraphFilterDocs ==
    /\ fl_pc = "filter"
    /\ relevant_docs' = _filter_docs_by_entities(fl_docs, fl_entities, fl_top_k)
    /\ fl_pc' = "done"
    /\ UNCHANGED <<fl_docs, fl_entities, fl_top_k>>
    /\ UNCHANGED notFilter

FilterNext == GraphFilterDocs

SpecFilter == FilterInit /\ [][FilterNext]_vars

(***************************************************************************)
(* Specifications.                                                         *)
(***************************************************************************)
RankedLists == SeqsUpTo(Contents, MaxLen)

FusionInit ==
    /\ RotatorIdle
    /\ FilterIdle
    /\ QueryIdle
    /\ ExpansionIdle
    /\ RouterIdle
    /\ DedupIdle
    /\ GraphIdle
    /\ RerankIdle
    /\ f_pc = "search"
    /\ all_results = <<>>
    /\ rrf_k \in RrfKs
    /\ final_top_k \in 0..MaxTopK
    /\ fused_docs = <<>>

\* one pass of the multi-query search loop: the store answers one variant, or
\* the call raises and the exception leaves fusion_rag (its locals are gone)
FusionSearch ==
    /\ f_pc = "search"
    /\ Len(all_results) < MaxLists
    /\ \/ /\ \E docs \in RankedLists : all_results' = Append(all_results, docs)
          /\ UNCHANGED f_pc
       \/ /\ f_pc' = "raised"
          /\ all_results' = <<>>
    /\ UNCHANGED <<rrf_k, final_top_k, fused_docs>>
    /\ UNCHANGED notFusion

\* the loop has ended: RRF fusion of the lists gathered
FusionFuse ==
    /\ f_pc = "search"
    /\ fused_docs' = _reciprocal_rank_fusion(all_results, rrf_k, final_top_k)
    /\ f_pc' = "done"
    /\ UNCHANGED <<all_results, rrf_k, final_top_k>>
    /\ UNCHANGED notFusion

FusionNext == FusionSearch \/ FusionFuse

\* ranked lists over two contents
OrderRankedLists == SeqsUpTo({"A", "B"}, MaxLen)

\* fusion_rag after its search loop gathered the lists of up to the default
\* three variants
OrderInit ==
    /\ RotatorIdle
    /\ FilterIdle
    /\ QueryIdle
    /\ ExpansionIdle
    /\ RouterIdle
    /\ DedupIdle
    /\ GraphIdle
    /\ RerankIdle
    /\ f_pc = "search"
    /\ all_results \in SeqsUpTo(OrderRankedLists, NumQueries)
    /\ rrf_k \in RrfKs
    /\ final_top_k = MaxTopK
    /\ fused_docs = <<>>

OrderNext == FusionFuse

SpecOrder == OrderInit /\ [][OrderNext]_vars

DedupNext == SubquerySearch \/ SubqueryDeduplicate \/ SubquerySelectTopK

SpecDedup == DedupInit /\ [][DedupNext]_vars

GraphNext == GraphExtractQueryEntities \/ GraphBuildDoc \/ GraphExpand

SpecGraph == GraphInit /\ [][GraphNext]_vars

RerankNext == RerankCheckCredential \/ RerankInitialRetrieval \/ RerankStageTwo

SpecRerank == RerankInit /\ [][RerankNext]_vars

\* the linear graph of create_adaptive_graph, then the return of run_adaptive_rag
RouterNext ==
    \/ classify_query_node
    \/ select_technique_node
    \/ execute_rag_node
    \/ build_response_node
    \/ run_adaptive_rag_return

SpecRouter == RouterInit /\ [][RouterNext]_vars

\* labels select_technique_node can be handed: the table's keys and others
SelectInputs ==
    Range(VALID_CATEGORIES) \cup
    {<<>>,
     <<"b", "a", "n", "a", "n", "a">>,
     <<"c", "a", "t", "e", "g", "o", "r", "y">>,
     <<"S", "i", "m", "p", "l", "e">>}

\* the graph entered at select with any label in state["query_type"]
SelectInit ==
    /\ RotatorIdle
    /\ FilterIdle
    /\ QueryIdle
    /\ ExpansionIdle
    /\ FusionIdle
    /\ DedupIdle
    /\ GraphIdle
    /\ RerankIdle
    /\ r_pc = "select"
    /\ COHERE_API_KEY \in {"", "co-key"}
    /\ classify_outcome = "<none>"
    /\ classifier_response = <<>>
    /\ execute_outcome = "<none>"
    /\ query_type \in SelectInputs
    /\ technique = ""
    /\ confidence \in {50, 90}
    /\ answer = ""
    /\ sources = <<>>
    /\ metrics = {}
    /\ execution_details = {}
    /\ r_result = {}

SelectNext ==
    \/ select_technique_node
    \/ execute_rag_node
    \/ build_response_node
    \/ run_adaptive_rag_return

SpecSelect == SelectInit /\ [][SelectNext]_vars

(***************************************************************************)
(* API key rotation (core/api_keys.py).  _keys is the list of APIKeyStatus, *)
(* _current_index counts from 0 as in the code; now is time.time().        *)
(***************************************************************************)
KeyNames == <<"k1", "k2", "k3", "k4">>

\* the keys that can be configured
KeyPool == {KeyNames[i] : i \in 1..MaxKeys}

\* values of cooldown_seconds, in ticks of the clock
Cooldowns == {1, 2}

\* APIKeyStatus(key=api_key, ...)
APIKeyStatus(api_key) ==
    [key |-> api_key, is_exhausted |-> FALSE, exhausted_until |-> 0,
     request_count |-> 0, error_count |-> 0]

\* APIKeyStatus.mark_exhausted
mark_exhausted(status, t, cooldown_seconds) ==
    [status EXCEPT !.is_exhausted = TRUE,
                   !.exhausted_until = t + cooldown_seconds,
                   !.error_count = @ + 1]

\* a check that lets every key through
IsAvailableIgnoringCooldown(status, t) == [available |-> TRUE, status |-> status]

\* APIKeyStatus.is_available: the answer and the status it leaves
is_available(status, t) ==
    IF ~status.is_exhausted THEN [available |-> TRUE, status |-> status]
    ELSE IF t > status.exhausted_until
         THEN [available |-> TRUE, status |-> [status EXCEPT !.is_exhausted = FALSE]]
         ELSE [available |-> FALSE, status |-> status]

\* APIKeyRotator.add_key: a key already present is skipped
add_key(keys, api_key) ==
    IF \E i \in 1..Len(keys) : keys[i].key = api_key THEN keys
    ELSE Append(keys, APIKeyStatus(api_key))

RECURSIVE GetNextKeyLoop(_, _, _, _, _)
\* for _ in range(len(self._keys)): ...
GetNextKeyLoop(keys, index, t, remaining, examined) ==
    IF remaining = 0
    THEN [key |-> NoKey, keys |-> keys, index |-> index, examined |-> examined]
    ELSE LET checked == is_available(keys[index + 1], t)
             after == [keys EXCEPT ![index + 1] = checked.status]
             next == (index + 1) % Len(keys)
         IN  IF checked.available
             THEN [key |-> keys[index + 1].key, keys |-> after, index |-> next,
                   examined |-> Append(examined, index)]
             ELSE GetNextKeyLoop(after, next, t, remaining - 1, Append(examined, index))

\* APIKeyRotator.get_next_key: the key returned, the rotator it leaves and
\* the indexes it looked at
get_next_key(keys, index, t) ==
    IF keys = <<>>
    THEN [key |-> NoKey, keys |-> keys, index |-> index, examined |-> <<>>]
    ELSE GetNextKeyLoop(keys, index, t, Len(keys), <<>>)

\* a marking that takes the first key of the pool whatever key is named
MarkKeyExhaustedFirst(keys, api_key, t, cooldown_seconds) ==
    IF keys = <<>> THEN keys
    ELSE [keys EXCEPT ![1] = mark_exhausted(@, t, cooldown_seconds)]

\* APIKeyRotator.mark_key_exhausted
mark_key_exhausted(keys, api_key, t, cooldown_seconds) ==
    [i \in 1..Len(keys) |->
        IF keys[i].key = api_key THEN mark_exhausted(keys[i], t, cooldown_seconds)
        ELSE keys[i]]

\* APIKeyRotator.mark_current_exhausted: idx = (self._current_index - 1) % len
mark_current_exhausted(keys, index, t, cooldown_seconds) ==
    IF keys = <<>> THEN keys
    ELSE [keys EXCEPT ![((index - 1) % Len(keys)) + 1] =
                          mark_exhausted(@, t, cooldown_seconds)]

\* APIKeyRotator.record_success
record_success(keys, api_key) ==
    [i \in 1..Len(keys) |->
        IF keys[i].key = api_key THEN [keys[i] EXCEPT !.request_count = @ + 1]
        ELSE keys[i]]

\* the rotator after construction; its methods are then called in any order
RotatorInit ==
    /\ FusionIdle
    /\ DedupIdle
    /\ GraphIdle
    /\ RerankIdle
    /\ RouterIdle
    /\ ExpansionIdle
    /\ QueryIdle
    /\ FilterIdle
    /\ InvokeIdle
    /\ CallersIdle
    /\ RoutedIdle
    /\ _keys = <<>>
    /\ _current_index = 0
    /\ now = 0
    /\ rot_pc = "api"
    /\ rot_ops = 0
    /\ rot_last = ""
    /\ gnk_result = NoKey
    /\ gnk_examined = <<>>
    /\ gnk_run = <<>>

RotatorAddKey ==
    /\ rot_pc = "api"
    /\ rot_ops < MaxOps
    /\ \E api_key \in KeyPool : _keys' = add_key(_keys, api_key)
    /\ rot_ops' = rot_ops + 1
    /\ rot_last' = "add_key"
    /\ gnk_run' = <<>>
    /\ UNCHANGED <<_current_index, now, rot_pc, gnk_result, gnk_examined>>
    /\ UNCHANGED <<invokeVars, callerVars, routedVars>>
    /\ UNCHANGED notRotator

RotatorGetNextKey ==
    /\ rot_pc = "api"
    /\ rot_ops < MaxOps
    /\ LET got == get_next_key(_keys, _current_index, now)
       IN  /\ _keys' = got.keys
           /\ _current_index' = got.index
           /\ gnk_result' = got.key
           /\ gnk_examined' = got.examined
           /\ gnk_run' = Append(gnk_run, got.key)
    /\ rot_ops' = rot_ops + 1
    /\ rot_last' = "get_next_key"
    /\ UNCHANGED <<now, rot_pc>>
    /\ UNCHANGED <<invokeVars, callerVars, routedVars>>
    /\ UNCHANGED notRotator

RotatorMarkKeyExhausted ==
    /\ rot_pc = "api"
    /\ rot_ops < MaxOps
    /\ \E api_key \in KeyPool, cooldown_seconds \in Cooldowns :
          _keys' = mark_key_exhausted(_keys, api_key, now, cooldown_seconds)
    /\ rot_ops' = rot_ops + 1
    /\ rot_last' = "mark_key_exhausted"
    /\ gnk_run' = <<>>
    /\ UNCHANGED <<_current_index, now, rot_pc, gnk_result, gnk_examined>>
    /\ UNCHANGED <<invokeVars, callerVars, routedVars>>
    /\ UNCHANGED notRotator

RotatorMarkCurrentExhausted ==
    /\ rot_pc = "api"
    /\ rot_ops < MaxOps
    /\ \E cooldown_seconds \in Cooldowns :
          _keys' = mark_current_exhausted(_keys, _current_index, now, cooldown_seconds)
    /\ rot_ops' = rot_ops + 1
    /\ rot_last' = "mark_current_exhausted"
    /\ gnk_run' = <<>>
    /\ UNCHANGED <<_current_index, now, rot_pc, gnk_result, gnk_examined>>
    /\ UNCHANGED <<invokeVars, callerVars, routedVars>>
    /\ UNCHANGED notRotator

RotatorRecordSuccess ==
    /\ rot_pc = "api"
    /\ rot_ops < MaxOps
    /\ \E api_key \in KeyPool : _keys' = record_success(_keys, api_key)
    /\ rot_ops' = rot_ops + 1
    /\ rot_last' = "record_success"
    /\ gnk_run' = <<>>
    /\ UNCHANGED <<_current_index, now, rot_pc, gnk_result, gnk_examined>>
    /\ UNCHANGED <<invokeVars, callerVars, routedVars>>
    /\ UNCHANGED notRotator

\* time.time() moves on between two calls
ClockAdvance ==
    /\ rot_pc = "api"
    /\ now < MaxClock
    /\ now' = now + 1
    /\ rot_last' = "clock"
    /\ gnk_run' = <<>>
    /\ UNCHANGED <<_keys, _current_index, rot_pc, rot_ops, gnk_result, gnk_examined>>
    /\ UNCHANGED <<invokeVars, callerVars, routedVars>>
    /\ UNCHANGED notRotator

RotatorNext ==
    \/ RotatorAddKey
    \/ RotatorGetNextKey
    \/ RotatorMarkKeyExhausted
    \/ RotatorMarkCurrentExhausted
    \/ RotatorRecordSuccess
    \/ ClockAdvance

SpecRotator == RotatorInit /\ [][RotatorNext]_vars

(***************************************************************************)
(* invoke_with_rotation / ainvoke_with_rotation (core/llm.py).             *)
(***************************************************************************)
\* a key as the rotator holds it: fresh (until = 0), or marked exhausted
\* until the given time
StatusUntil(api_key, until) ==
    IF until = 0 THEN APIKeyStatus(api_key)
    ELSE [key |-> api_key, is_exhausted |-> TRUE, exhausted_until |-> until,
          request_count |-> 0, error_count |-> 1]

\* pools of n keys, each fresh or in a cooldown
ConfiguredKeys(n) ==
    {[i \in 1..n |-> StatusUntil(KeyNames[i], f[i])] : f \in [1..n -> {0} \cup Cooldowns]}

\* what the call llm.invoke(prompt) does: answers, raises ResourceExhausted
\* (429), raises something else
CallOutcomes == {"ok", "ResourceExhausted", "Exception"}

InvokeInit ==
    /\ FusionIdle
    /\ DedupIdle
    /\ GraphIdle
    /\ RerankIdle
    /\ RouterIdle
    /\ ExpansionIdle
    /\ QueryIdle
    /\ FilterIdle
    /\ ApiIdle
    /\ CallersIdle
    /\ RoutedIdle
    /\ \E n \in 0..MaxKeys :
          /\ _keys \in ConfiguredKeys(n)
          /\ _current_index \in 0..Max(n - 1, 0)
    /\ now = 0
    /\ iv_pc = "loop"
    /\ iv_max_retries \in 0..MaxRetries
    /\ iv_cooldown \in Cooldowns
    /\ iv_attempt = 0
    /\ iv_log = <<>>
    /\ iv_error = ""

\* one pass of `for attempt in range(max_retries)`; the call takes some time
InvokeAttempt ==
    /\ iv_pc = "loop"
    /\ iv_attempt < iv_max_retries
    /\ LET got == get_next_key(_keys, _current_index, now)
       IN  /\ _current_index' = got.index
           /\ IF got.key = NoKey
              THEN /\ _keys' = got.keys
                   /\ now' = now
                   /\ iv_log' = Append(iv_log, [key |-> NoKey, outcome |-> "no key"])
                   /\ iv_pc' = "raised"
                   /\ iv_error' = "RuntimeError"
                   /\ iv_attempt' = iv_attempt
              ELSE \E outcome \in CallOutcomes, elapsed \in {0, 1} :
                      /\ now + elapsed <= MaxClock
                      /\ now' = now + elapsed
                      /\ iv_log' = Append(iv_log, [key |-> got.key, outcome |-> outcome])
                      /\ _keys' =
                            CASE outcome = "ok" -> record_success(got.keys, got.key)
                              [] outcome = "ResourceExhausted" ->
                                    mark_key_exhausted(got.keys, got.key, now + elapsed,
                                                       iv_cooldown)
                              [] OTHER -> got.keys
                      /\ iv_pc' =
                            CASE outcome = "ok" -> "returned"
                              [] outcome = "ResourceExhausted" -> "loop"
                              [] OTHER -> "raised"
                      /\ iv_error' = IF outcome = "Exception" THEN "Exception" ELSE iv_error
                      /\ iv_attempt' =
                            iv_attempt + (IF outcome = "ResourceExhausted" THEN 1 ELSE 0)
    /\ UNCHANGED <<iv_max_retries, iv_cooldown>>
    /\ UNCHANGED <<apiVars, callerVars, routedVars>>
    /\ UNCHANGED notRotator

\* the loop has ended: raise RuntimeError("All ... API key attempts failed")
InvokeGiveUp ==
    /\ iv_pc = "loop"
    /\ iv_attempt >= iv_max_retries
    /\ iv_pc' = "raised"
    /\ iv_error' = "RuntimeError"
    /\ UNCHANGED <<iv_max_retries, iv_cooldown, iv_attempt, iv_log>>
    /\ UNCHANGED <<rotVars, apiVars, callerVars, routedVars>>
    /\ UNCHANGED notRotator

InvokeNext == InvokeAttempt \/ InvokeGiveUp

\* the loop runs without waiting on anything but the call it awaits
SpecInvoke == InvokeInit /\ [][InvokeNext]_vars /\ WF_vars(InvokeNext)

(***************************************************************************)
(* Callers of the one global rotator (get_api_key_rotator) that run at the  *)
(* same time: threads of run_async_safely, or tasks of one event loop that  *)
(* await between their calls.  A method of the rotator is one step; no      *)
(* method takes self._lock.                                                 *)
(***************************************************************************)
Callers == {1, 2}

\* a pool of n keys as initialize_rotator leaves it
FreshKeys(n) == [i \in 1..n |-> APIKeyStatus(KeyNames[i])]

CallersInit ==
    /\ FusionIdle
    /\ DedupIdle
    /\ GraphIdle
    /\ RerankIdle
    /\ RouterIdle
    /\ ExpansionIdle
    /\ QueryIdle
    /\ FilterIdle
    /\ ApiIdle
    /\ InvokeIdle
    /\ RoutedIdle
    /\ \E n \in 1..MaxKeys :
          /\ _keys = FreshKeys(n)
          /\ _current_index \in 0..(n - 1)
    /\ now = 0
    /\ c_pc = [c \in Callers |-> "get"]
    /\ c_key = [c \in Callers |-> NoKey]
    /\ c_marked = [c \in Callers |-> NoKey]

\* key = rotator.get_next_key()
CallerGetNextKey ==
    \E c \in DOMAIN c_pc :
        /\ c_pc[c] = "get"
        /\ LET got == get_next_key(_keys, _current_index, now)
           IN  /\ _keys' = got.keys
               /\ _current_index' = got.index
               /\ c_key' = [c_key EXCEPT ![c] = got.key]
        /\ c_pc' = [c_pc EXCEPT ![c] = "mark"]
        /\ UNCHANGED <<now, c_marked>>
        /\ UNCHANGED <<apiVars, invokeVars, routedVars>>
        /\ UNCHANGED notRotator

\* on a 429 of the call made with the key: rotator.mark_current_exhausted(cooldown)
CallerMarkCurrentExhausted ==
    \E c \in DOMAIN c_pc, cooldown_seconds \in Cooldowns, elapsed \in {0, 1} :
        /\ c_pc[c] = "mark"
        /\ now + elapsed <= MaxClock
        /\ now' = now + elapsed
        /\ _keys' = mark_current_exhausted(_keys, _current_index, now + elapsed,
                                           cooldown_seconds)
        /\ c_marked' = [c_marked EXCEPT ![c] =
                           _keys[((_current_index - 1) % Len(_keys)) + 1].key]
        /\ c_pc' = [c_pc EXCEPT ![c] = "done"]
        /\ UNCHANGED <<_current_index, c_key>>
        /\ UNCHANGED <<apiVars, invokeVars, routedVars>>
        /\ UNCHANGED notRotator

CallersNext == CallerGetNextKey \/ CallerMarkCurrentExhausted

SpecCallers == CallersInit /\ [][CallersNext]_vars

(***************************************************************************)
(* Queries routed at the same time: each run_adaptive_rag has its own      *)
(* AdaptiveState, and classify_query_node takes its key from the global    *)
(* rotator through get_llm.                                                *)
(***************************************************************************)
Queries == {1, 2}

\* the label the classifier gives the query when its call is answered
QueryLabel(q) == IF q = 1 THEN complex ELSE precision

RoutedInit ==
    /\ FusionIdle
    /\ DedupIdle
    /\ GraphIdle
    /\ RerankIdle
    /\ RouterIdle
    /\ ExpansionIdle
    /\ QueryIdle
    /\ FilterIdle
    /\ ApiIdle
    /\ InvokeIdle
    /\ CallersIdle
    /\ \E n \in 1..MaxKeys :
          /\ _keys = FreshKeys(n)
          /\ limited \in SUBSET {KeyNames[i] : i \in 1..n}
    /\ _current_index = 0
    /\ now = 0
    /\ rq_pc = [q \in Queries |-> "classify"]
    /\ rq_category = [q \in Queries |-> <<>>]
    /\ rq_confidence = [q \in Queries |-> 0]
    /\ rq_technique = [q \in Queries |-> ""]
    /\ rq_result = [q \in Queries |-> {}]

\* classify_query_node of one query: get_llm takes rotator.get_next_key()
\* (RuntimeError when it is None); llm.invoke with a key of a rate-limited
\* project raises and the except gives simple, 0.5
RoutedClassify ==
    \E q \in DOMAIN rq_pc :
        /\ rq_pc[q] = "classify"
        /\ LET got == get_next_key(_keys, _current_index, now)
           IN  /\ _keys' = got.keys
               /\ _current_index' = got.index
               /\ rq_pc' = [rq_pc EXCEPT ![q] = IF got.key = NoKey THEN "raised" ELSE "select"]
               /\ rq_category' =
                     [rq_category EXCEPT ![q] =
                         IF got.key = NoKey THEN @
                         ELSE IF got.key \in limited THEN simple
                         ELSE ValidateCategory(QueryLabel(q))]
               /\ rq_confidence' =
                     [rq_confidence EXCEPT ![q] =
                         IF got.key = NoKey THEN @
                         ELSE IF got.key \in limited
                              THEN ClassifyConfidence("invoke raised", simple)
                              ELSE ClassifyConfidence("answered", QueryLabel(q))]
        /\ UNCHANGED <<now, limited, rq_technique, rq_result>>
        /\ UNCHANGED <<apiVars, invokeVars, callerVars>>
        /\ UNCHANGED notRotator

\* select_technique_node of one query
RoutedSelect ==
    \E q \in DOMAIN rq_pc :
        /\ rq_pc[q] = "select"
        /\ rq_technique' = [rq_technique EXCEPT ![q] = CATEGORY_TO_TECHNIQUE(rq_category[q])]
        /\ rq_pc' = [rq_pc EXCEPT ![q] = "execute"]
        /\ UNCHANGED <<limited, rq_category, rq_confidence, rq_result>>
        /\ UNCHANGED <<rotVars, apiVars, invokeVars, callerVars>>
        /\ UNCHANGED notRotator

\* execute_rag_node, build_response_node and the return of run_adaptive_rag:
\* what the result says of the routing
RoutedExecute ==
    \E q \in DOMAIN rq_pc :
        /\ rq_pc[q] = "execute"
        /\ rq_result' =
              [rq_result EXCEPT ![q] =
                  [query_classification |-> rq_category[q],
                   selected_technique |-> rq_technique[q],
                   routing_confidence |-> rq_confidence[q],
                   ran |-> get_technique_function(rq_technique[q])]]
        /\ rq_pc' = [rq_pc EXCEPT ![q] = "done"]
        /\ UNCHANGED <<limited, rq_category, rq_confidence, rq_technique>>
        /\ UNCHANGED <<rotVars, apiVars, invokeVars, callerVars>>
        /\ UNCHANGED notRotator

RoutedNext == RoutedClassify \/ RoutedSelect \/ RoutedExecute

SpecRouted == RoutedInit /\ [][RoutedNext]_vars

\* one invocation of any one of the components
Init ==
    \/ FusionInit
    \/ OrderInit
    \/ DedupInit
    \/ GraphInit
    \/ RerankInit
    \/ RouterInit
    \/ SelectInit
    \/ ExpansionInit
    \/ QueryInit
    \/ FilterInit
    \/ RotatorInit
    \/ InvokeInit
    \/ CallersInit
    \/ RoutedInit

Next ==
    \/ FusionNext
    \/ DedupNext
    \/ GraphNext
    \/ RerankNext
    \/ RouterNext
    \/ ExpansionNext
    \/ QueryNext
    \/ FilterNext
    \/ RotatorNext
    \/ InvokeNext
    \/ CallersNext
    \/ RoutedNext

Spec == Init /\ [][Next]_vars

SpecFusion == FusionInit /\ [][FusionNext]_vars

(***************************************************************************)
(* Rank fusion: properties.                                                *)
(***************************************************************************)
\* the places (list, rank) where content c occurs in the input lists
OccPositions(c) ==
    {pos \in (1..Len(all_results)) \X (1..MaxLen) :
        /\ pos[2] <= Len(all_results[pos[1]])
        /\ all_results[pos[1]][pos[2]] = c}

RECURSIVE SumOfTerms(_, _)
\* the sum of 1/(k + r) over a set of places, as a numerator over Scale(k)
SumOfTerms(S, k) ==
    IF S = {} THEN 0
    ELSE LET pos == CHOOSE x \in S : TRUE
         IN  (Scale(k) \div (k + pos[2])) + SumOfTerms(S \ {pos}, k)

OccurringContents == {c \in Contents : OccPositions(c) # {}}

\* c1 is first seen before c2 when the lists are scanned in order
SeenBefore(c1, c2) ==
    \E p1 \in OccPositions(c1) : \A p2 \in OccPositions(c2) :
        p1[1] < p2[1] \/ (p1[1] = p2[1] /\ p1[2] < p2[2])

FusedContent(p) == fused_docs[p].doc.page_content

ExampleLists == << <<"A", "B">>, <<"B", "C">> >>

\* C1: the fused score of every returned candidate is the sum of 1/(k + r)
\* over every occurrence of its content at rank r (1-based) of any list, so it
\* is nonzero; for k = 60, [A,B] and [B,C] give A = 1/61, B = 1/62 + 1/61,
\* C = 1/62 and the order [B, A, C].
C1_RrfExactSum ==
    f_pc = "done" =>
        /\ \A p \in 1..Len(fused_docs) :
              /\ fused_docs[p].rrf_score = SumOfTerms(OccPositions(FusedContent(p)), rrf_k)
              /\ fused_docs[p].rrf_score > 0
        /\ (all_results = ExampleLists /\ rrf_k = 60 /\ final_top_k >= 3) =>
              /\ [p \in 1..Len(fused_docs) |-> FusedContent(p)] = <<"B", "A", "C">>
              /\ fused_docs[2].rrf_score * 61 = Scale(60)
              /\ fused_docs[1].rrf_score * (61 * 62) = Scale(60) * (61 + 62)
              /\ fused_docs[3].rrf_score * 62 = Scale(60)

C1_Witness ==
    /\ f_pc = "done"
    /\ all_results = ExampleLists
    /\ rrf_k = 60
    /\ final_top_k = 3
    /\ Len(fused_docs) = 3

\* C2: the fused list is sorted by fused score descending, equal scores stay
\* in first-seen order, no content is repeated, at most top_k candidates are
\* returned, and no input lists give an empty output.
C2_RrfSortedBounded ==
    f_pc = "done" =>
        /\ \A p, q \in 1..Len(fused_docs) : p < q =>
              /\ fused_docs[p].rrf_score >= fused_docs[q].rrf_score
              /\ FusedContent(p) # FusedContent(q)
              /\ (fused_docs[p].rrf_score = fused_docs[q].rrf_score
                    => SeenBefore(FusedContent(p), FusedContent(q)))
        /\ Len(fused_docs) <= final_top_k
        /\ Len(fused_docs) = Min(final_top_k, Cardinality(OccurringContents))
        /\ (all_results = <<>> => fused_docs = <<>>)

C2_Witness ==
    /\ f_pc = "done"
    /\ Cardinality(OccurringContents) > final_top_k
    /\ Len(fused_docs) = 2
    /\ fused_docs[1].rrf_score = fused_docs[2].rrf_score

C2_WitnessEmpty == f_pc = "done" /\ all_results = <<>> /\ final_top_k > 0

(***************************************************************************)
(* Deduplication and top-k selection: properties.                          *)
(***************************************************************************)
\* the candidates of all_docs whose content is c
Group(c) == {i \in 1..Len(all_docs) : all_docs[i].doc.page_content = c}

GroupMax(c) == CHOOSE m \in {all_docs[i].score : i \in Group(c)} :
                  \A i \in Group(c) : all_docs[i].score <= m

DistinctContents == {c \in DedupContents : Group(c) # {}}

\* the (content, score) pairs of a candidate list
Pairs(cands) == [p \in 1..Len(cands) |-> <<cands[p].doc.page_content, cands[p].score>>]

ExampleDocs == Extend(<<>>, << <<"D1", 7>>, <<"D2", 5>>, <<"D1", 9>> >>)

\* C3: deduplication keeps, for every content of the input, exactly one
\* candidate, which is one of the input and carries the maximum score of its
\* group; [(D1,0.7),(D2,0.5),(D1,0.9)] with top_k = 2 gives [(D1,0.9),(D2,0.5)].
C3_DedupKeepsMax ==
    /\ d_pc \in {"select", "done"} =>
          /\ \A c \in DistinctContents :
                \E p \in 1..Len(unique_docs) :
                    /\ unique_docs[p].doc.page_content = c
                    /\ unique_docs[p].score = GroupMax(c)
                    /\ unique_docs[p] \in Range(all_docs)
                    /\ \A q \in 1..Len(unique_docs) :
                          unique_docs[q].doc.page_content = c => q = p
          /\ Len(unique_docs) = Cardinality(DistinctContents)
    /\ (d_pc = "done" /\ all_docs = ExampleDocs /\ sq_top_k = 2) =>
          Pairs(unique_docs_sorted) = << <<"D1", 9>>, <<"D2", 5>> >>

C3_Witness == d_pc = "done" /\ all_docs = ExampleDocs /\ sq_top_k = 2

\* the place where content c is first seen in all_docs
FirstSeen(c) == CHOOSE i \in Group(c) : \A j \in Group(c) : i <= j

\* C4: for any flat candidate list and top_k >= 0 the selection returns exactly
\* min(top_k, number of distinct contents) candidates, sorted by score
\* descending, equal scores in the order their contents were first seen.
C4_TopKLength ==
    d_pc = "done" =>
        /\ Len(unique_docs_sorted) = Min(sq_top_k, Cardinality(DistinctContents))
        /\ \A p, q \in 1..Len(unique_docs_sorted) : p < q =>
              /\ unique_docs_sorted[p].score >= unique_docs_sorted[q].score
              /\ (unique_docs_sorted[p].score = unique_docs_sorted[q].score =>
                    FirstSeen(unique_docs_sorted[p].doc.page_content)
                        < FirstSeen(unique_docs_sorted[q].doc.page_content))

C4_Witness ==
    /\ d_pc = "done"
    /\ sq_top_k = 1
    /\ Cardinality(DistinctContents) = 2
    /\ Len(all_docs) = 3
    /\ Len(unique_docs_sorted) = 1

(***************************************************************************)
(* Entity expansion: properties.                                           *)
(***************************************************************************)
\* an edge of the graph joins a and b (edges are unordered)
Adjacent(a, b) ==
    \E n \in 1..Len(entity_graph.edges) :
        entity_graph.edges[n] = <<a, b>> \/ entity_graph.edges[n] = <<b, a>>

\* some path of at most h edges leads from a to b
PathWithin(a, b, h) ==
    \E n \in 0..h : \E path \in [1..(n + 1) -> Entities] :
        /\ path[1] = a
        /\ path[n + 1] = b
        /\ \A i \in 1..n : Adjacent(path[i], path[i + 1])

ReachableWithin(seeds, h) == {e \in Entities : \E s \in seeds : PathWithin(s, e, h)}

ExampleEdges == << <<"Python", "Guido">>, <<"Guido", "1991">> >>

\* C5: expansion returns exactly the seeds united with every entity a path of
\* at most H edges reaches from a seed; H = 0 returns the seeds, and with the
\* edges (Python,Guido),(Guido,1991) and the seed Python, H = 1 gives
\* {Python, Guido} and H = 2 gives {Python, Guido, 1991}.
C5_ExpandReachable ==
    g_pc = "done" =>
        /\ expanded_entities = Range(query_entities)
                                  \cup ReachableWithin(Range(query_entities), expansion_hops)
        /\ expansion_hops = 0 => expanded_entities = Range(query_entities)
        /\ (entity_graph.edges = ExampleEdges /\ query_entities = <<"Python">>) =>
              /\ expansion_hops = 1 => expanded_entities = {"Python", "Guido"}
              /\ expansion_hops = 2 => expanded_entities = {"Python", "Guido", "1991"}

C5_Witness ==
    /\ g_pc = "done"
    /\ entity_graph.edges = ExampleEdges
    /\ query_entities = <<"Python">>
    /\ expansion_hops = 2
    /\ expanded_entities = {"Python", "Guido", "1991"}

(***************************************************************************)
(* Two-stage reranking: properties.                                        *)
(***************************************************************************)
\* C6: without a reranking credential (None or empty) the orchestrator raises
\* before any external call: no stage-1 retrieval and no stage-2 rerank call is
\* ever made, and the only step it takes ends in the raised error.
C6_FailFastNoCalls ==
    (cohere_api_key = "<None>" \/ cohere_api_key = "") =>
        /\ stage1_calls = 0
        /\ stage2_calls = 0
        /\ rr_pc \in {"start", "raised"}

C6_Witness == rr_pc = "raised" /\ cohere_api_key = ""

C6_WitnessNone == rr_pc = "raised" /\ cohere_api_key = "<None>"

\* a list of records is in descending order of rerank_score
DescendingRerank(listed) ==
    \A p, q \in 1..Len(listed) : p < q => listed[p].rerank_score >= listed[q].rerank_score

\* the service listed its results in descending order of relevance
ServiceDescending ==
    \A p, q \in 1..Len(rerank_response) :
        p < q => rerank_response[p].relevance_score >= rerank_response[q].relevance_score

\* C7 as stated: whatever order the service lists its results in, the output is
\* in descending order of rerank_score.
C7_SortedForAnyServiceOrder ==
    rr_pc = "done" => DescendingRerank(reranked_sources)

\* C7 as amended: the output lists the results in the order the service listed
\* them, each with the score the service gave it; so it is in descending order of
\* rerank_score whenever the service lists its results so, whatever the order
\* of the original scores.
C7_KeepsServiceOrder ==
    rr_pc = "done" =>
        /\ Len(reranked_sources) = Len(rerank_response)
        /\ \A p \in 1..Len(reranked_sources) :
              /\ reranked_sources[p].rerank_score = rerank_response[p].relevance_score
              /\ reranked_sources[p].rerank_index = rerank_response[p].index
        /\ ServiceDescending => DescendingRerank(reranked_sources)

C7_Witness ==
    /\ rr_pc = "done"
    /\ ServiceDescending
    /\ Len(reranked_sources) = 2
    /\ reranked_sources[1].rerank_score > reranked_sources[2].rerank_score
    /\ reranked_sources[1].original_score < reranked_sources[2].original_score
    /\ reranked_sources[1].rerank_index > reranked_sources[2].rerank_index

(***************************************************************************)
(* Adaptive router: properties.                                            *)
(***************************************************************************)
\* the classify node has returned
PastClassify == r_pc \in {"select", "execute", "build", "END", "returned"}

PastSelect == r_pc \in {"execute", "build", "END", "returned"}

\* no valid label occurs anywhere in the text, whatever its case
NoLabelIn(content) ==
    \A n \in 1..Len(VALID_CATEGORIES) : ~StrContains(VALID_CATEGORIES[n], StrLower(content))

Banana == <<"b", "a", "n", "a", "n", "a">>

\* C8: after Classify the category is one of simple, complex, abstract,
\* precision; when the classifier answers with no valid label (such as
\* "banana") the category is simple and the technique selected is baseline.
C8_CategoryInClosedSet ==
    /\ PastClassify =>
          /\ query_type \in {<<"s", "i", "m", "p", "l", "e">>,
                             <<"c", "o", "m", "p", "l", "e", "x">>,
                             <<"a", "b", "s", "t", "r", "a", "c", "t">>,
                             <<"p", "r", "e", "c", "i", "s", "i", "o", "n">>}
          /\ NoLabelIn(classifier_response) => query_type = <<"s", "i", "m", "p", "l", "e">>
    /\ (PastSelect /\ NoLabelIn(classifier_response)) => technique = "baseline"

C8_Witness ==
    /\ r_pc = "execute"
    /\ classifier_response = Banana
    /\ query_type = simple
    /\ technique = "baseline"

IsAlphaOrSpace(c) == IsAlpha(c) \/ IsSpace(c)

\* the response trimmed, lowercased and stripped of punctuation
NormalizedResponse(content) == SelectSeq(StrLower(StrStrip(content)), IsAlphaOrSpace)

\* C9: when the normalized response is not a valid label but a valid label
\* occurs anywhere in it (as in "category: complex"), the category is a valid
\* label that the response contains; the default is used only when none occurs.
C9_LabelFoundAnywhere ==
    (PastClassify /\ confidence = 90) =>
        LET normalized == NormalizedResponse(classifier_response)
        IN  (/\ normalized \notin Range(VALID_CATEGORIES)
             /\ \E n \in 1..Len(VALID_CATEGORIES) :
                   StrContains(VALID_CATEGORIES[n], normalized))
            => (/\ query_type \in Range(VALID_CATEGORIES)
                /\ StrContains(query_type, normalized))

RouterSuccessor(node) ==
    CASE node = "classify" -> "select"
      [] node = "select" -> "execute"
      [] node = "execute" -> "build"
      [] node = "build" -> "END"
      [] node = "END" -> "returned"
      [] OTHER -> node

\* C11: every step of a routed query moves from a router state to the next
\* one of Classify, Select, Execute, Annotate, end (no state is skipped or
\* repeated and the run goes on to the end); the technique is set by Select
\* only, Execute runs that technique, and Annotate follows Execute whether
\* the execution returned or raised.
C11_LinearOnceEach ==
    [][/\ r_pc' = RouterSuccessor(r_pc)
       /\ technique' # technique => (r_pc = "select" /\ classify_outcome # "<none>")
       /\ r_pc = "execute" =>
             /\ r_pc' = "build"
             /\ answer'.technique = technique
             /\ execute_outcome' \in {"returned", "raised"}]_routerVars

\* C12: a classification failure of any kind (no classifier obtained, the
\* call raised, an invalid label) is recovered in Classify: no error reaches
\* the caller, the category is the default one and the router goes to Select.
C12_ClassificationFailureRecovered ==
    /\ r_pc # "raised"
    /\ classify_outcome # "<none>" => PastClassify
    /\ classify_outcome \in {"get_llm raised", "invoke raised"} => query_type = simple
    /\ (classify_outcome = "answered" /\ NoLabelIn(classifier_response)) => query_type = simple

C13_WitnessTable ==
    /\ r_pc = "returned"
    /\ query_type = precision
    /\ r_result.execution_details.technique_selected = "reranking"

(***************************************************************************)
(* Failure handling of the external calls: properties.                     *)
(***************************************************************************)
\* C16: while the entity graph is built, every step (a failed extraction call
\* included) leaves the build running or finished, never aborted, and keeps
\* the nodes and edges gathered from the documents extracted so far.
C16_BuildNeverAborts ==
    [][g_pc = "build_entity_graph" =>
          /\ g_pc' \in {"build_entity_graph", "done"}
          /\ entity_graph.nodes \subseteq entity_graph'.nodes
          /\ Len(entity_graph.edges) <= Len(entity_graph'.edges)
          /\ SliceTo(entity_graph'.edges, Len(entity_graph.edges)) = entity_graph.edges]_graphVars

\* C14: when the generation call of the expansion (paraphrases, sub-questions,
\* hypothesis) raises, the expansion does not raise: the variants are the
\* fallback [query] and the strategy goes on to search with the original query.
C14_ExpansionFailureFallsBack ==
    e_outcome = "raised" =>
        /\ e_pc \in {"search", "done"}
        /\ query_variations = <<Query>>

\* C19: for every n (n <= 0 and n > 5 included) the expansion returns at most
\* n and at most 5 variants (and at least the query itself), so at most 5
\* retrieval calls are issued by one invocation.
C19_FanOutBounded ==
    /\ e_outcome = "returned" =>
          /\ Len(query_variations) <= Max(1, Min(num_variations, 5))
          /\ Len(query_variations) <= 5
    /\ search_calls <= 5

\* C15: every pass of the variant search loop, a failed retrieval call
\* included, adds one list (an empty one for a failed call) to the lists
\* gathered so far and leaves the loop running; the fusion then aggregates
\* whatever was gathered, so no exception reaches the caller even when every
\* call failed.
C15_FailedVariantContributesEmpty ==
    [][f_pc = "search" =>
          \/ /\ f_pc' = "search"
             /\ Len(all_results') = Len(all_results) + 1
             /\ SliceTo(all_results', Len(all_results)) = all_results
          \/ /\ f_pc' = "done"
             /\ all_results' = all_results
             /\ Len(fused_docs') <= final_top_k]_fusionVars

(***************************************************************************)
(* Rank fusion: the document and the scores kept per content.              *)
(***************************************************************************)
\* place p1 is scanned before place p2
ScannedBefore(p1, p2) == p1[1] < p2[1] \/ (p1[1] = p2[1] /\ p1[2] < p2[2])

\* the places where content c occurs, in scan order
PlacesInScanOrder(c) ==
    LET S == OccPositions(c)
    IN  [n \in 1..Cardinality(S) |->
            CHOOSE pos \in S : Cardinality({q \in S : ScannedBefore(q, pos)}) = n - 1]

\* C17: a fused candidate carries the metadata of the first occurrence of its
\* content in scan order, and its contributing scores are the scores of all
\* the occurrences, one each, in scan order.
C17_FirstOccurrenceMetadata ==
    f_pc = "done" =>
        \A p \in 1..Len(fused_docs) :
            LET places == PlacesInScanOrder(FusedContent(p))
            IN  /\ fused_docs[p].doc.metadata = places[1]
                /\ fused_docs[p].original_scores =
                      [n \in 1..Len(places) |-> StoreScore(places[n][1], places[n][2])]

(***************************************************************************)
(* The query endpoint: properties.                                         *)
(***************************************************************************)
\* C18: whichever strategy answers a request, called directly or through the
\* adaptive router, its list of sources is never longer than the top_k of the
\* request.
C18_SourcesWithinRequestedTopK ==
    q_pc \in {"result", "responded"} => q_sources <= request_top_k

(***************************************************************************)
(* Entity re-ranking: properties.                                          *)
(***************************************************************************)
\* the entities that occur in the content, letter case aside
MatchCount(content, entities) ==
    Cardinality({e \in entities :
        \E i \in 0..(Len(content) - Len(e)) :
            \A j \in 1..Len(e) : CharLower(e[j]) = CharLower(content[i + j])})

\* the combined score of the candidate at place i of the input, in hundredths
Combined(i) ==
    fl_docs[i].score * 10
        + fl_docs[i].score * MatchCount(fl_docs[i].doc.page_content, fl_entities)

\* C20: every returned candidate is an input candidate with the score
\* original_score x (1 + 0.1 x match_count), match_count being the number of
\* expanded entities that occur in its content as case-insensitive
\* substrings; the result is sorted by that score descending and is the input
\* truncated to top_k: nothing else is dropped, and what is dropped scores no
\* higher than what is kept.
C20_CombinedScoreSortedTruncated ==
    fl_pc = "done" =>
        LET place(p) == relevant_docs[p].doc.metadata
            kept == {place(p) : p \in 1..Len(relevant_docs)}
        IN  /\ Len(relevant_docs) = Min(fl_top_k, Len(fl_docs))
            /\ \A p \in 1..Len(relevant_docs) :
                  /\ place(p) \in 1..Len(fl_docs)
                  /\ relevant_docs[p].doc = fl_docs[place(p)].doc
                  /\ relevant_docs[p].score = Combined(place(p))
            /\ Cardinality(kept) = Len(relevant_docs)
            /\ \A p \in 1..(Len(relevant_docs) - 1) :
                  relevant_docs[p].score >= relevant_docs[p + 1].score
            /\ \A i \in (1..Len(fl_docs)) \ kept : \A p \in 1..Len(relevant_docs) :
                  Combined(i) <= relevant_docs[p].score

\* two matching entities written in another case lift the second candidate
\* (0.5 x 1.2) over the first (0.5 x 1.0); the third is cut by top_k = 2
C20_Witness ==
    /\ fl_pc = "done"
    /\ Len(fl_docs) = 3
    /\ fl_top_k = 2
    /\ fl_entities = {<<"P", "Y">>, <<"G", "o">>, <<"z", "z">>}
    /\ fl_docs[1].doc.page_content = <<"x">>
    /\ fl_docs[2].doc.page_content = <<"p", "y", "G", "o">>
    /\ fl_docs[1].score = 5
    /\ fl_docs[2].score = 5
    /\ relevant_docs[1].doc.metadata = 2
    /\ relevant_docs[1].score = 60

(***************************************************************************)
(* Two-stage reranking: the mapping back to the stage-1 candidates.        *)
(***************************************************************************)
\* C21: every reranked source is the stage-1 candidate at the index the
\* reranker returned for it (content, metadata, original_score) with the
\* relevance score the reranker gave for that index; the rerank call is made
\* only after the stage-1 retrieval, with the stage-1 contents in stage-1 order.
C21_IndexMapsBackToStageOne ==
    /\ stage2_calls <= stage1_calls
    /\ stage2_calls > 0 =>
          documents_to_rerank = [i \in 1..Len(initial_docs) |-> initial_docs[i].doc.page_content]
    /\ rr_pc = "done" =>
          /\ stage1_calls = 1
          /\ stage2_calls = 1
          /\ Len(reranked_sources) = Len(rerank_response)
          /\ \A p \in 1..Len(reranked_sources) :
                LET i == rerank_response[p].index
                IN  /\ i \in 1..Len(initial_docs)
                    /\ reranked_sources[p].rerank_index = i
                    /\ reranked_sources[p].content = initial_docs[i].doc.page_content
                    /\ reranked_sources[p].metadata = initial_docs[i].doc.metadata
                    /\ reranked_sources[p].metadata = i
                    /\ reranked_sources[p].original_score = initial_docs[i].score
                    /\ reranked_sources[p].rerank_score = rerank_response[p].relevance_score

\* the reranker lists the second stage-1 candidate first
C21_Witness ==
    /\ rr_pc = "done"
    /\ Len(initial_docs) = 2
    /\ initial_docs[1].doc.page_content = "P"
    /\ initial_docs[2].doc.page_content = "Q"
    /\ initial_docs[1].score = 6
    /\ initial_docs[2].score = 3
    /\ Len(reranked_sources) = 2
    /\ reranked_sources[1].rerank_index = 2
    /\ reranked_sources[1].content = "Q"
    /\ reranked_sources[1].original_score = 3
    /\ reranked_sources[2].content = "P"

(***************************************************************************)
(* Expansion: unusable generation output.                                  *)
(***************************************************************************)
\* the lines of a response that hold something other than white space
UsableLines(response) == {i \in 1..Len(response) : StrStrip(response[i]) # <<>>}

\* the usable lines that are not headings
SubQuestionLines(response) ==
    {i \in UsableLines(response) : StrStrip(response[i])[1] # "#"}

\* C23: when the generation call returns unusable output (only white space,
\* a hypothesis under 20 characters once trimmed, at most one sub-question)
\* the expansion is exactly [query]; whatever the call returns, the expansion
\* is never empty.
C23_UnusableOutputFallsBack ==
    e_outcome = "returned" =>
        /\ Len(query_variations) >= 1
        /\ (e_technique = "fusion" /\ UsableLines(e_response) = {})
              => query_variations = <<Query>>
        /\ (e_technique = "subquery" /\ Cardinality(SubQuestionLines(e_response)) <= 1)
              => query_variations = <<Query>>
        /\ (e_technique = "hyde" /\ Len(StrStrip(e_response[1])) < MinHypothesisLen)
              => query_variations = <<Query>>

\* a hypothesis of 21 characters of which 19 remain after trimming
C23_Witness ==
    /\ e_outcome = "returned"
    /\ e_technique = "hyde"
    /\ Len(e_response[1]) > MinHypothesisLen
    /\ Len(StrStrip(e_response[1])) = MinHypothesisLen - 1
    /\ query_variations = <<Query>>

\* a decomposition of one sub-question among blank lines and headings
C23_WitnessOneSubQuestion ==
    /\ e_outcome = "returned"
    /\ e_technique = "subquery"
    /\ num_variations >= 2
    /\ Len(e_response) >= 2
    /\ Cardinality(SubQuestionLines(e_response)) = 1
    /\ query_variations = <<Query>>

(***************************************************************************)
(* Rank fusion: the order of the input lists.                              *)
(***************************************************************************)
\* the orders in which n lists can be aggregated
ListOrders(n) == {f \in [1..n -> 1..n] : \A i, j \in 1..n : i # j => f[i] # f[j]}

Reordered(results, f) == [i \in 1..Len(results) |-> results[f[i]]]

\* the fused scores as the code computes them, in floats
FloatScores(results, k) ==
    FloatRrfLoop([c \in Contents |-> FloatZero], Occurrences(results, 1, 1), 1, k)

\* the fused scores as exact sums
ExactScores(results, k) == RrfLoop(RrfEmpty, Occurrences(results, 1, 1), 1, k).rrf_scores

\* one unit in the last of the 53 bits of x
Ulp(x) == IF x = FloatZero THEN 0 ELSE Pow2(Bits(x.hi) + 40 - 53)

\* x and y are at most n units in the last place apart
FloatWithin(x, y, n) ==
    /\ x.hi - y.hi \in {-1, 0, 1}
    /\ LET upper == ((x.hi - y.hi) * Limb) + (x.mid - y.mid)
       IN  /\ upper \in {-1, 0, 1}
           /\ (upper * Limb) + (x.lo - y.lo) <= n * Max(Ulp(x), Ulp(y))
           /\ (upper * Limb) + (x.lo - y.lo) >= 0 - (n * Max(Ulp(x), Ulp(y)))

\* C27: for every order of the same input lists every candidate receives the
\* same fused score as in the order the sequential loop takes them.
C27_SameScoreForEveryOrder ==
    f_pc = "done" =>
        \A f \in ListOrders(Len(all_results)) :
            FloatScores(Reordered(all_results, f), rrf_k) = FloatScores(all_results, rrf_k)

\* C27 (amended): for every order of the same input lists every candidate
\* has the same exact sum of terms; its computed score is the same when it
\* occurs at most twice, and with n > 2 occurrences the computed scores are
\* at most n - 1 units in the last place apart.
C27_SameScoreUpToRounding ==
    f_pc = "done" =>
        \A f \in ListOrders(Len(all_results)) :
            LET other == Reordered(all_results, f)
            IN  /\ ExactScores(other, rrf_k) = ExactScores(all_results, rrf_k)
                /\ \A c \in Contents :
                      LET here == FloatScores(all_results, rrf_k)[c]
                          there == FloatScores(other, rrf_k)[c]
                          n == Cardinality(OccPositions(c))
                      IN  /\ n <= 2 => there = here
                          /\ (n = 0) = (here = FloatZero)
                          /\ FloatWithin(here, there, Max(n - 1, 0))

\* A at rank 1 of two lists and rank 2 of the third, k = 60: the orders give
\* (1/61 + 1/61) + 1/62 and (1/61 + 1/62) + 1/61, one unit in the last place
\* apart
C27_Witness ==
    /\ f_pc = "done"
    /\ rrf_k = 60
    /\ all_results = << <<"A">>, <<"A">>, <<"B", "A">> >>
    /\ FloatScores(all_results, rrf_k)["A"]
          # FloatScores(<< <<"A">>, <<"B", "A">>, <<"A">> >>, rrf_k)["A"]
    /\ FloatWithin(FloatScores(all_results, rrf_k)["A"],
                   FloatScores(<< <<"A">>, <<"B", "A">>, <<"A">> >>, rrf_k)["A"], 1)
    /\ ExactScores(all_results, rrf_k)["A"] = (2 * RankTerm(60, 1)) + RankTerm(60, 2)
    /\ FloatScores(all_results, rrf_k)["B"]
          = FloatScores(<< <<"A">>, <<"B", "A">>, <<"A">> >>, rrf_k)["B"]

\* the place in the result of the candidate at place i of the input (0 when
\* it was cut)
RankOf(i) ==
    IF \E p \in 1..Len(relevant_docs) : relevant_docs[p].doc.metadata = i
    THEN CHOOSE p \in 1..Len(relevant_docs) : relevant_docs[p].doc.metadata = i
    ELSE 0

\* C28: entity matches never demote: of two candidates with the same
\* original_score (negative ones included) the one matching more expanded
\* entities is ranked no later than the other (and is kept whenever the other
\* is), and no candidate's combined score is below its original_score.
C28_MatchesNeverDemote ==
    fl_pc = "done" =>
        /\ \A p \in 1..Len(relevant_docs) :
              relevant_docs[p].score >= 10 * fl_docs[relevant_docs[p].doc.metadata].score
        /\ \A i, j \in 1..Len(fl_docs) :
              (/\ fl_docs[i].score = fl_docs[j].score
               /\ MatchCount(fl_docs[i].doc.page_content, fl_entities)
                     > MatchCount(fl_docs[j].doc.page_content, fl_entities)
               /\ RankOf(j) # 0)
                  => (RankOf(i) # 0 /\ RankOf(i) < RankOf(j))

(***************************************************************************)
(* Router: reranking without a credential; the confidence.                 *)
(***************************************************************************)
\* C29: when the category is precision (so the technique is reranking) and
\* no reranking credential is configured, execute makes no stage-1 and no
\* stage-2 call, the error is handled there and does not leave the router,
\* and the result is a degraded answer with no sources that carries the
\* category precision and the technique reranking.
C29_RerankingWithoutCredentialDegraded ==
    /\ (PastSelect /\ query_type = precision) => technique = "reranking"
    /\ (PastSelect /\ technique = "reranking" /\ COHERE_API_KEY \in {"", "<None>"}) =>
          /\ r_pc # "raised"
          /\ stage1_calls = 0
          /\ stage2_calls = 0
          /\ r_pc \in {"build", "END", "returned"} =>
                /\ execute_outcome = "raised"
                /\ answer.kind = "Erro ao executar tecnica"
                /\ answer.technique = "reranking"
                /\ answer.error = "ValueError"
                /\ sources = <<>>
          /\ r_pc = "returned" =>
                /\ r_result.answer.kind = "Erro ao executar tecnica"
                /\ r_result.sources = <<>>
                /\ r_result.metrics.query_classification = precision
                /\ r_result.metrics.selected_technique = "reranking"
                /\ r_result.execution_details.query_type = precision
                /\ r_result.execution_details.technique_selected = "reranking"

C29_Witness ==
    /\ r_pc = "returned"
    /\ COHERE_API_KEY = ""
    /\ classify_outcome = "answered"
    /\ query_type = precision
    /\ r_result.sources = <<>>
    /\ r_result.metrics.selected_technique = "reranking"
    /\ stage1_calls = 0

\* C30: the confidence the router annotates is 0.5 or 0.90: 0.5 exactly
\* when the classifier call raised, 0.90 whenever it answered, an answer with
\* no valid label (category defaulted to simple) included; the annotations
\* carry that value.
C30_ConfidenceTwoValues ==
    /\ PastClassify =>
          /\ confidence \in {50, 90}
          /\ confidence >= 0
          /\ confidence <= 100
          /\ (confidence = 50) = (classify_outcome = "invoke raised")
          /\ (confidence = 90) = (classify_outcome = "answered")
          /\ (classify_outcome = "answered" /\ NoLabelIn(classifier_response)) =>
                (query_type = simple /\ confidence = 90)
    /\ r_pc \in {"END", "returned"} => execution_details.confidence = confidence
    /\ r_pc = "returned" =>
          /\ r_result.metrics.routing_confidence = confidence
          /\ r_result.execution_details.confidence = confidence

\* the classifier answered "banana": simple by default, confidence 0.90
C30_Witness ==
    /\ r_pc = "returned"
    /\ classify_outcome = "answered"
    /\ classifier_response = Banana
    /\ query_type = simple
    /\ r_result.metrics.routing_confidence = 90

\* the classifier call raised: simple, confidence 0.5
C30_WitnessRaised ==
    /\ r_pc = "returned"
    /\ classify_outcome = "invoke raised"
    /\ r_result.metrics.routing_confidence = 50

(***************************************************************************)
(* API key rotation: properties.                                           *)
(***************************************************************************)
\* the key is marked exhausted and its cooldown has not elapsed
InCooldown(status) == status.is_exhausted /\ now <= status.exhausted_until

\* the place of a key in the pool, in insertion order
PlaceOf(api_key) == CHOOSE i \in 1..Len(_keys) : _keys[i].key = api_key

\* C24: after any sequence of calls and clock advances, get_next_key returns
\* no key that is in cooldown, returns None exactly when there is no key or
\* every key is in cooldown, looks at no key twice in one call, and, while
\* every key is available, consecutive calls return the keys one after the
\* other in insertion order (wrapping around), so N calls over N keys return
\* each key once; add_key keeps the keys distinct and the index stays within
\* the pool.
C24_NextKeyAvailableRoundRobin ==
    /\ \A i, j \in 1..Len(_keys) : i # j => _keys[i].key # _keys[j].key
    /\ _current_index \in 0..Max(Len(_keys) - 1, 0)
    /\ rot_last = "get_next_key" =>
          /\ gnk_result # NoKey =>
                /\ \E i \in 1..Len(_keys) : _keys[i].key = gnk_result
                /\ ~InCooldown(_keys[PlaceOf(gnk_result)])
                /\ gnk_examined[Len(gnk_examined)] = PlaceOf(gnk_result) - 1
          /\ (gnk_result = NoKey) =
                (_keys = <<>> \/ \A i \in 1..Len(_keys) : InCooldown(_keys[i]))
          /\ Len(gnk_examined) <= Len(_keys)
          /\ \A a, b \in 1..Len(gnk_examined) : a # b => gnk_examined[a] # gnk_examined[b]
          /\ \A a \in 1..(Len(gnk_examined) - 1) : InCooldown(_keys[gnk_examined[a] + 1])
          /\ (_keys # <<>> /\ \A i \in 1..Len(_keys) : ~InCooldown(_keys[i])) =>
                /\ \A a \in 1..(Len(gnk_run) - 1) :
                      PlaceOf(gnk_run[a + 1]) = (PlaceOf(gnk_run[a]) % Len(_keys)) + 1
                /\ Len(gnk_run) >= Len(_keys) =>
                      \A a \in 1..(Len(gnk_run) - Len(_keys) + 1) :
                         {gnk_run[b] : b \in a..(a + Len(_keys) - 1)}
                            = {_keys[i].key : i \in 1..Len(_keys)}

\* two keys, both available: three calls in a row gave k1, k2, k1
C24_Witness ==
    /\ rot_last = "get_next_key"
    /\ Len(_keys) = 2
    /\ gnk_run = <<"k1", "k2", "k1">>

\* the first key is in cooldown and is passed over
C24_WitnessSkips ==
    /\ rot_last = "get_next_key"
    /\ Len(_keys) = 2
    /\ InCooldown(_keys[1])
    /\ gnk_examined = <<0, 1>>
    /\ gnk_result = _keys[2].key

\* every key is in cooldown: None
C24_WitnessNone ==
    /\ rot_last = "get_next_key"
    /\ Len(_keys) = 2
    /\ gnk_result = NoKey
    /\ gnk_examined = <<0, 1>>

\* a key marked exhausted is given again once its cooldown has elapsed
C24_WitnessRecovered ==
    /\ rot_last = "get_next_key"
    /\ Len(_keys) = 1
    /\ _keys[1].error_count = 1
    /\ ~_keys[1].is_exhausted
    /\ gnk_result = _keys[1].key

(***************************************************************************)
(* invoke_with_rotation: properties.                                       *)
(***************************************************************************)
\* the attempts made so far: the passes that were given a key
Attempts == {a \in 1..Len(iv_log) : iv_log[a].outcome # "no key"}

\* what holds in every state of a call
InvokeBounded ==
    /\ Cardinality(Attempts) <= iv_max_retries
    /\ \A a \in 1..(Len(iv_log) - 1) : iv_log[a].outcome = "ResourceExhausted"
    /\ iv_pc = "loop" => \A a \in 1..Len(iv_log) : iv_log[a].outcome = "ResourceExhausted"
    /\ iv_pc = "returned" => (iv_log # <<>> /\ iv_log[Len(iv_log)].outcome = "ok")
    /\ iv_pc = "raised" =>
          \/ /\ iv_error = "Exception"
             /\ iv_log # <<>>
             /\ iv_log[Len(iv_log)].outcome = "Exception"
          \/ /\ iv_error = "RuntimeError"
             /\ \/ (iv_log # <<>> /\ iv_log[Len(iv_log)].outcome = "no key")
                \/ /\ Len(iv_log) = iv_max_retries
                   /\ \A a \in 1..Len(iv_log) : iv_log[a].outcome = "ResourceExhausted"

\* what one pass of the loop does to the rotator
InvokePass ==
    iv_log' # iv_log =>
        LET e == iv_log'[Len(iv_log')]
            same(i) == /\ _keys'[i].error_count = _keys[i].error_count
                       /\ _keys'[i].exhausted_until = _keys[i].exhausted_until
                       /\ _keys'[i].is_exhausted => _keys[i].is_exhausted
            counted(i) == _keys'[i].request_count = _keys[i].request_count + 1
            uncounted(i) == _keys'[i].request_count = _keys[i].request_count
        IN  /\ Len(_keys') = Len(_keys)
            /\ e.outcome = "no key" =>
                  /\ \A i \in 1..Len(_keys) :
                        _keys[i].is_exhausted /\ now <= _keys[i].exhausted_until
                  /\ \A i \in 1..Len(_keys) : same(i) /\ uncounted(i)
                  /\ iv_pc' = "raised"
                  /\ iv_error' = "RuntimeError"
            /\ e.outcome # "no key" =>
                  \E used \in 1..Len(_keys) :
                     /\ _keys[used].key = e.key
                     /\ ~(_keys[used].is_exhausted /\ now <= _keys[used].exhausted_until)
                     /\ \A i \in (1..Len(_keys)) \ {used} : same(i) /\ uncounted(i)
                     /\ e.outcome = "ResourceExhausted" =>
                           /\ _keys'[used].is_exhausted
                           /\ _keys'[used].exhausted_until = now' + iv_cooldown
                           /\ _keys'[used].error_count = _keys[used].error_count + 1
                           /\ uncounted(used)
                           /\ iv_pc' = "loop"
                     /\ e.outcome = "Exception" =>
                           /\ same(used)
                           /\ uncounted(used)
                           /\ iv_pc' = "raised"
                           /\ iv_error' = "Exception"
                     /\ e.outcome = "ok" =>
                           /\ same(used)
                           /\ counted(used)
                           /\ iv_pc' = "returned"

\* C25: a call makes at most max_retries attempts; an attempt that hits the
\* rate limit marks exactly the key it used as exhausted and the loop goes on
\* with the next available key; any other error is raised at once and marks
\* no key; a success is recorded for the key used and returned; with no key
\* available, or every attempt rate-limited, RuntimeError is raised; the call
\* always ends.
C25_RotationBoundedTerminates ==
    /\ []InvokeBounded
    /\ [][InvokePass]_vars
    /\ <>(iv_pc \in {"returned", "raised"})

\* the second of two keys is rate-limited, the first of them then answers
C25_Witness ==
    /\ iv_pc = "returned"
    /\ Len(_keys) = 2
    /\ Len(iv_log) = 2
    /\ iv_log[1] = [key |-> "k2", outcome |-> "ResourceExhausted"]
    /\ iv_log[2] = [key |-> "k1", outcome |-> "ok"]
    /\ _keys[2].is_exhausted
    /\ _keys[1].request_count = 1

\* every attempt allowed was rate-limited
C25_WitnessAllLimited ==
    /\ iv_pc = "raised"
    /\ iv_error = "RuntimeError"
    /\ iv_max_retries = 2
    /\ Len(iv_log) = 2
    /\ iv_log[2].outcome = "ResourceExhausted"

(***************************************************************************)
(* The rotator under concurrent callers; queries routed at the same time.  *)
(***************************************************************************)
\* C26: under every interleaving of two callers that each call get_next_key
\* and then mark_current_exhausted, the key a caller marks exhausted is the
\* key that caller was last given, and the rotation index stays within the
\* pool.
C26_CallerMarksItsOwnKey ==
    /\ _current_index \in 0..(Len(_keys) - 1)
    /\ \A c \in DOMAIN c_pc :
          (c_pc[c] = "done" /\ c_key[c] # NoKey) => c_marked[c] = c_key[c]

\* the category a query gets when it is routed alone
AloneCategory(q) ==
    IF get_next_key(FreshKeys(Len(_keys)), 0, 0).key \in limited THEN simple
    ELSE QueryLabel(q)

\* C22: queries routed at the same time share no state: under every
\* interleaving, each query gets the category, the technique and the routing
\* result it gets when it is routed alone.
C22_RoutedAsWhenAlone ==
    \A q \in DOMAIN rq_pc :
        /\ rq_pc[q] # "raised"
        /\ rq_pc[q] \in {"select", "execute", "done"} => rq_category[q] = AloneCategory(q)
        /\ rq_pc[q] \in {"execute", "done"} =>
              rq_technique[q] = CATEGORY_TO_TECHNIQUE(AloneCategory(q))
        /\ rq_pc[q] = "done" =>
              /\ rq_result[q].query_classification = AloneCategory(q)
              /\ rq_result[q].selected_technique = CATEGORY_TO_TECHNIQUE(AloneCategory(q))
====
